---- MODULE Spec2Model ----
(***************************************************************************)
(* Model of kmhook-rs: the Shortcut value type (src/src/types.rs), the     *)
(* Worker translating raw hook messages and keeping the keyboard state     *)
(* (src/src/windows/worker.rs), the hook pump (src/src/windows/            *)
(* event_loop.rs) and the Listener facade with its subscription and        *)
(* shortcut tables and the multi-press trigger gate                        *)
(* (src/src/windows/listener.rs).                                          *)
(***************************************************************************)
EXTENDS Integers, Sequences, FiniteSets, TLC

(***************************************************************************)
(* Bounds of the model.                                                    *)
(***************************************************************************)
MaxHookEvents == 4      \* hook invocations fed to the pump thread
MaxGateEvents == 8      \* hook invocations of the trigger-gate runs
MaxChordEvents == 5     \* hook invocations of the key-order runs
MaxTime == 5            \* clock ticks (milliseconds of the model clock)
MaxId == 3              \* values the gen_id counter may reach
MaxTableId == 4         \* values the gen_id counter may reach in the table runs
MaxShutdowns == 2        \* Stop messages that may wait in the channel
MaxWorkerEvents == 2     \* hook invocations in the worker-loop runs
MaxKeysHeld == 3         \* keys a Shortcut built by a caller may hold
MaxRaceId == 2          \* value of the gen_id counter below which a call of the two-thread runs may begin
WindowMs == 2           \* the window handed to add_global_shortcut_trigger

(***************************************************************************)
(* Key catalog (keycode::VirtualKeyId as used by types.rs).  modifier(k)   *)
(* is the bit set of the key's modifier class, {} for a normal key: a      *)
(* generic modifier carries the bits of both sides.                        *)
(***************************************************************************)
ModifierKeys == {"Control", "ControlLeft", "ControlRight", "Alt", "AltLeft"}
NormalKeys == {"UsA", "UsC", "UsV"}
Keys == ModifierKeys \cup NormalKeys

modifier(key) ==
    CASE key = "Control" -> {"CL", "CR"}
      [] key = "ControlLeft" -> {"CL"}
      [] key = "ControlRight" -> {"CR"}
      [] key = "Alt" -> {"AL", "AR"}
      [] key = "AltLeft" -> {"AL"}
      [] OTHER -> {}

is_modifier(key) == modifier(key) # {}

(***************************************************************************)
(* Shortcut: modifiers and normal_keys are Vec<VirtualKeyId>.              *)
(***************************************************************************)
Range(s) == {s[i] : i \in 1..Len(s)}

contains(s, key) == key \in Range(s)

retain_ne(s, key) == SelectSeq(s, LAMBDA k : k # key)

ShortcutDefault == [modifiers |-> <<>>, normal_keys |-> <<>>]

\* set_key without its contains tests
set_key_push(s, key) ==
    IF is_modifier(key)
    THEN [s EXCEPT !.modifiers = Append(@, key)]
    ELSE [s EXCEPT !.normal_keys = Append(@, key)]

set_key(s, key) ==
    IF is_modifier(key)
    THEN IF ~contains(s.modifiers, key)
         THEN [s EXCEPT !.modifiers = Append(@, key)]
         ELSE s
    ELSE IF ~contains(s.normal_keys, key)
         THEN [s EXCEPT !.normal_keys = Append(@, key)]
         ELSE s

\* remove_key without its modifier branch
remove_key_normal_only(s, key) ==
    [s EXCEPT !.normal_keys = retain_ne(@, key)]

remove_key(s, key) ==
    IF is_modifier(key)
    THEN [s EXCEPT !.modifiers = retain_ne(@, key)]
    ELSE [s EXCEPT !.normal_keys = retain_ne(@, key)]

RECURSIVE SetKeys(_, _)
SetKeys(s, keys) ==
    IF keys = <<>> THEN s ELSE SetKeys(set_key(s, Head(keys)), Tail(keys))

\* Shortcut::new: Err("Empty keys") is modelled as the value "Err".
ShortcutNew(keys) == IF keys = <<>> THEN "Err" ELSE SetKeys(ShortcutDefault, keys)

has_modifier(s) == Len(s.modifiers) > 0

has_normal_key(s) == Len(s.normal_keys) > 0

\* impl PartialEq for Shortcut
ShortcutEq_ordered(a, b) ==
    /\ a.modifiers = b.modifiers
    /\ a.normal_keys = b.normal_keys

ShortcutEq(a, b) ==
    IF Len(a.modifiers) # Len(b.modifiers) THEN FALSE
    ELSE IF \E i \in 1..Len(a.modifiers) :
                Cardinality({j \in 1..Len(b.modifiers) :
                                b.modifiers[j] = a.modifiers[i]}) # 1
         THEN FALSE
         ELSE a.normal_keys = b.normal_keys

\* is_match comparing the modifier keys instead of their modifier bits
is_match_same_key(self, other) ==
    IF Len(self.modifiers) # Len(other.modifiers) THEN FALSE
    ELSE IF Len(self.normal_keys) # Len(other.normal_keys) THEN FALSE
    ELSE IF \E i \in 1..Len(self.modifiers) :
                Cardinality({j \in 1..Len(other.modifiers) :
                                other.modifiers[j] = self.modifiers[i]}) # 1
         THEN FALSE
         ELSE \A i \in 1..Len(self.normal_keys) :
                self.normal_keys[i] = other.normal_keys[i]

\* is_match comparing the normal keys as sets
is_match_any_side(self, other) ==
    IF Len(self.modifiers) # Len(other.modifiers) THEN FALSE
    ELSE IF Len(self.normal_keys) # Len(other.normal_keys) THEN FALSE
    ELSE IF \E i \in 1..Len(self.modifiers) :
                Cardinality({j \in 1..Len(other.modifiers) :
                    modifier(other.modifiers[j]) \cap modifier(self.modifiers[i]) # {}}) # 1
         THEN FALSE
         ELSE \A i \in 1..Len(self.normal_keys) :
                self.normal_keys[i] = other.normal_keys[i]

is_match_unordered(self, other) ==
    IF Len(self.modifiers) # Len(other.modifiers) THEN FALSE
    ELSE IF Len(self.normal_keys) # Len(other.normal_keys) THEN FALSE
    ELSE IF \E i \in 1..Len(self.modifiers) :
                Cardinality({j \in 1..Len(other.modifiers) :
                    modifier(other.modifiers[j]) \ modifier(self.modifiers[i]) = {}}) # 1
         THEN FALSE
         ELSE Range(self.normal_keys) = Range(other.normal_keys)

is_match(self, other) ==
    IF Len(self.modifiers) # Len(other.modifiers) THEN FALSE
    ELSE IF Len(self.normal_keys) # Len(other.normal_keys) THEN FALSE
    ELSE IF \E i \in 1..Len(self.modifiers) :
                Cardinality({j \in 1..Len(other.modifiers) :
                    modifier(other.modifiers[j]) \ modifier(self.modifiers[i]) = {}}) # 1
         THEN FALSE
         ELSE \A i \in 1..Len(self.normal_keys) :
                self.normal_keys[i] = other.normal_keys[i]

KeysOf(s) == Range(s.modifiers) \cup Range(s.normal_keys)

(***************************************************************************)
(* Multi-press trigger gate: ShortcutTriggerInfo and the closure built by  *)
(* add_global_shortcut_trigger.                                            *)
(***************************************************************************)
TriggerInfoNew(t) == [trigger |-> 0, last_trigger_time |-> t]

reset(info, t) == [trigger |-> 0, last_trigger_time |-> t]

increase(info, t) == [trigger |-> info.trigger + 1, last_trigger_time |-> t]

\* the gate closure without the reset that follows a completed sequence
gate_no_restart(info, required, internal, t) ==
    LET elapsed == t - info.last_trigger_time
        counted == IF info.trigger = 0 \/ elapsed < internal
                   THEN increase(info, t)
                   ELSE increase(reset(info, t), t)
    IN  [info |-> counted, need_trigger |-> counted.trigger >= required]

\* the gate closure without the test of the elapsed time
gate_no_window(info, required, internal, t) ==
    LET counted == increase(info, t)
    IN  IF counted.trigger >= required
        THEN [info |-> reset(counted, t), need_trigger |-> TRUE]
        ELSE [info |-> counted, need_trigger |-> FALSE]

\* One run of the gate closure at time t: the new ShortcutTriggerInfo and
\* need_trigger (whether the user callback is invoked).
gate(info, required, internal, t) ==
    LET elapsed == t - info.last_trigger_time
        counted == IF info.trigger = 0 \/ elapsed < internal
                   THEN increase(info, t)
                   ELSE increase(reset(info, t), t)
    IN  IF counted.trigger >= required
        THEN [info |-> reset(counted, t), need_trigger |-> TRUE]
        ELSE [info |-> counted, need_trigger |-> FALSE]

(***************************************************************************)
(* State.                                                                  *)
(***************************************************************************)
Threads == {"t1", "t2"}
LoopId == 1             \* EventLoop::new takes the first gen_id()
LoopTid == 1            \* GetCurrentThreadId() of the pump thread (non-zero)

VARIABLES
    gen_ID,             \* static mut ID of gen_id
    event_map,          \* Listener.event_map: ID -> selector
    shortcut_map,       \* Listener.shortcut_map: ID -> (Shortcut, callback)
    listener_alive,     \* the strong count of Arc<Listener> is not zero
    pc, loc, ret,       \* caller threads: position, locals, last result
    loop_pc,            \* pump thread position
    loop_thread_id,     \* EventLoop.loop_thread_id
    loop_msgs,          \* thread message queue of the pump thread
    kb_hook, mouse_hook,            \* LOCAL_KEYBOARD_HHOOK / LOCAL_MOUSE_HHOOK hold the id
    keyboard_event_ids, mouse_event_ids,   \* EventLoopManager lists
    last_time,          \* LOCAL_KEY_LAST_TIME
    msg_sender,         \* Worker.msg_sender is Some(tx)
    worker_pc,          \* worker loop position
    chan,               \* mpsc channel of WorkerMsg
    kbstate,            \* LOCAL_KEYBOARD_STATE of the worker thread
    tasks,              \* handler threads spawned by the worker loop, not yet run
    now,                \* clock (ms)
    hook_seq,           \* number of inputs so far (hook invocations, and inputs no hook saw)
    calls,              \* history: one record per handler run
    last_update,        \* history: key -> state of its most recent update
    unchanged,          \* history: messages whose update left the keyboard state as it was
    removed,            \* history: the bindings the last del call took out of the shortcut table
    before,             \* history: the two tables as the last add_event_listener call found
                        \* them, the thread of that call, and whether every other thread
                        \* has been idle since
    frame,              \* the on_event call in progress on the dispatching thread: its
                        \* position, its event, the callbacks still to call and the
                        \* MutexGuards it holds
    hook_call,          \* history: the path the last hook procedure invocation took, its
                        \* calls of CallNextHookEx and the MutexGuards alive at that call
    other_thread        \* the pump thread of the same EventLoop that a further startup()
                        \* spawned, or the one it displaced: position, its thread-local
                        \* hook maps and last key time, the messages posted to it

tables == <<event_map, shortcut_map, listener_alive>>
callers == <<pc, loc, ret>>
pump == <<loop_pc, loop_thread_id, loop_msgs, kb_hook, mouse_hook,
          keyboard_event_ids, mouse_event_ids, last_time>>
worker == <<msg_sender, worker_pc, chan, kbstate, tasks>>
history == <<hook_seq, calls, last_update, unchanged, removed, before>>
ext == <<frame, hook_call, other_thread>>
vars == <<gen_ID, tables, callers, pump, worker, now, history, ext>>

NoLoc == [op |-> "none", et |-> "None", shortcut |-> ShortcutDefault, trigger |-> 0,
          internal |-> 0, info |-> TriggerInfoNew(0), r |-> 0, id |-> 0,
          text |-> <<>>, parsed |-> [ok |-> FALSE, shortcut |-> ShortcutDefault]]

NoRet == [op |-> "none", ok |-> TRUE, id |-> 0, handle |-> FALSE]

\* no second pump thread has been spawned
NoThread == [loop_pc |-> "none", loop_msgs |-> <<>>, kb_hook |-> FALSE, mouse_hook |-> FALSE,
             last_time |-> 0]

\* no on_event call is in progress
NoFrame == [pc |-> "none",
            event |-> [type |-> "None", key_id |-> "None", state |-> "None",
                       keyboard_state |-> ShortcutDefault, seq |-> 0],
            cbs |-> {}, event_cbs |-> {}, hit |-> 0,
            held |-> {}]

\* Mutex::lock of a table mutex: it returns once no MutexGuard of it is alive
\* (a guard is alive across steps only in the on_event call in progress)
lock(mutex) == mutex \notin frame.held

Init ==
    /\ gen_ID = LoopId
    /\ event_map = <<>>
    /\ shortcut_map = <<>>
    /\ listener_alive = TRUE
    /\ pc = [t \in Threads |-> "idle"]
    /\ loc = [t \in Threads |-> NoLoc]
    /\ ret = [t \in Threads |-> NoRet]
    /\ loop_pc = "none"
    /\ loop_thread_id = 0
    /\ loop_msgs = <<>>
    /\ kb_hook = FALSE
    /\ mouse_hook = FALSE
    /\ keyboard_event_ids = <<>>
    /\ mouse_event_ids = <<>>
    /\ last_time = 0
    /\ msg_sender = FALSE
    /\ worker_pc = "none"
    /\ chan = <<>>
    /\ kbstate = ShortcutDefault
    /\ tasks = {}
    /\ now = 1
    /\ hook_seq = 0
    /\ calls = <<>>
    /\ last_update = [k \in Keys |-> "None"]
    /\ unchanged = {}
    /\ removed = {}
    /\ before = [event_map |-> <<>>, shortcut_map |-> <<>>, by |-> "none", clean |-> FALSE]
    /\ frame = NoFrame
    /\ hook_call = [path |-> "none", calls |-> 0, held |-> {}]
    /\ other_thread = NoThread

(***************************************************************************)
(* HashMap helpers.                                                        *)
(***************************************************************************)
insert(m, k, v) == [x \in DOMAIN m \cup {k} |-> IF x = k THEN v ELSE m[x]]

remove(m, k) == [x \in DOMAIN m \ {k} |-> m[x]]

(***************************************************************************)
(* EventLoop::post_msg_to_loop.  PostThreadMessageW appends to the pump's   *)
(* queue; a recheck posted behind a recheck that is still queued is folded *)
(* into it (recheck_hook reads the tables when it runs).                   *)
(***************************************************************************)
post_msg_to_loop(tid, msgs) ==
    IF tid = 0 THEN msgs
    ELSE IF msgs # <<>> /\ msgs[Len(msgs)] = "RECHECK" THEN msgs
    ELSE Append(msgs, "RECHECK")

(***************************************************************************)
(* Listener API, one action per step of a call on caller thread t.         *)
(***************************************************************************)
\* history: thread t enters a call
touched(t) == IF before.by = t THEN before ELSE [before EXCEPT !.clean = FALSE]

\* add_event_listener(cb, event_type): event_type None is EventType::All
BeginAddEventListener(t, event_type) ==
    /\ pc[t] = "idle"
    /\ pc' = [pc EXCEPT ![t] = "gen_id_load"]
    /\ loc' = [loc EXCEPT ![t] = [NoLoc EXCEPT !.op = "add_event_listener",
                    !.et = IF event_type = "None" THEN "All" ELSE event_type]]
    /\ before' = [event_map |-> event_map, shortcut_map |-> shortcut_map,
                  by |-> t, clean |-> \A u \in Threads \ {t} : pc[u] = "idle"]
    /\ UNCHANGED <<gen_ID, tables, ret, pump, worker, now, ext, hook_seq, calls,
                   last_update, unchanged, removed>>

\* add_global_shortcut(shortcut, cb)
BeginAddGlobalShortcut(t, shortcut) ==
    /\ pc[t] = "idle"
    /\ pc' = [pc EXCEPT ![t] = "gen_id_load"]
    /\ loc' = [loc EXCEPT ![t] = [NoLoc EXCEPT !.op = "add_global_shortcut",
                                                !.shortcut = shortcut]]
    /\ before' = touched(t)
    /\ UNCHANGED <<gen_ID, tables, ret, pump, worker, now, ext, hook_seq, calls,
                   last_update, unchanged, removed>>

\* add_global_shortcut_trigger(shortcut, cb, trigger, Some(internal)):
\* builds the ShortcutTriggerInfo, then calls add_global_shortcut with the gate closure
BeginAddGlobalShortcutTrigger(t, shortcut, trigger, internal) ==
    /\ pc[t] = "idle"
    /\ pc' = [pc EXCEPT ![t] = "gen_id_load"]
    /\ loc' = [loc EXCEPT ![t] = [NoLoc EXCEPT !.op = "add_global_shortcut_trigger",
                    !.shortcut = shortcut, !.trigger = trigger, !.internal = internal,
                    !.info = TriggerInfoNew(now)]]
    /\ before' = touched(t)
    /\ UNCHANGED <<gen_ID, tables, ret, pump, worker, now, ext, hook_seq, calls,
                   last_update, unchanged, removed>>

\* gen_id: `ID += 1; ID` on a static mut is a load and a store that other
\* threads may interleave with.
GenIdLoad(t) ==
    /\ pc[t] = "gen_id_load"
    /\ loc' = [loc EXCEPT ![t].r = gen_ID]
    /\ pc' = [pc EXCEPT ![t] = "gen_id_store"]
    /\ UNCHANGED <<gen_ID, tables, ret, pump, worker, now, ext, history>>

GenIdStore(t) ==
    /\ pc[t] = "gen_id_store"
    /\ gen_ID' = loc[t].r + 1
    /\ loc' = [loc EXCEPT ![t].id = loc[t].r + 1]
    /\ pc' = [pc EXCEPT ![t] = "insert"]
    /\ UNCHANGED <<tables, ret, pump, worker, now, ext, history>>

\* add_event_listener: event_map.lock().insert(id, (et, cb))
InsertEvent(t) ==
    /\ pc[t] = "insert"
    /\ lock("event_map")
    /\ loc[t].op = "add_event_listener"
    /\ event_map' = insert(event_map, loc[t].id, loc[t].et)
    /\ pc' = [pc EXCEPT ![t] = "post_recheck"]
    /\ UNCHANGED <<gen_ID, shortcut_map, listener_alive, loc, ret, pump, worker, now, ext, history>>

\* sc.is_input_match(shortcut.usb_input()) of add_global_shortcut: the bound
\* shortcut sc compares equal (==) to the new one
is_duplicate(sc, shortcut) == ShortcutEq(sc, shortcut)

\* the duplicate test of add_global_shortcut, with the shortcut table locked
shortcut_exists(map, shortcut) ==
    \E i \in DOMAIN map : is_duplicate(map[i].shortcut, shortcut)

\* add_global_shortcut inserting before it tests for a duplicate
InsertShortcutFirst(t) ==
    /\ pc[t] = "insert"
    /\ loc[t].op \in {"add_global_shortcut", "add_global_shortcut_trigger"}
    /\ shortcut_map' = insert(shortcut_map, loc[t].id,
            [shortcut |-> loc[t].shortcut, trigger |-> loc[t].trigger,
             internal |-> loc[t].internal, info |-> loc[t].info])
    /\ IF shortcut_exists(shortcut_map, loc[t].shortcut)
       THEN /\ ret' = [ret EXCEPT ![t] = [NoRet EXCEPT !.op = loc[t].op, !.ok = FALSE]]
            /\ pc' = [pc EXCEPT ![t] = "idle"]
            /\ loc' = [loc EXCEPT ![t] = NoLoc]
       ELSE /\ pc' = [pc EXCEPT ![t] = "post_recheck"]
            /\ UNCHANGED <<loc, ret>>
    /\ UNCHANGED <<gen_ID, event_map, listener_alive, pump, worker, now, ext, history>>

\* add_global_shortcut releasing the lock between the duplicate test and the insert
InsertShortcutUnlocked(t) ==
    /\ loc[t].op \in {"add_global_shortcut", "add_global_shortcut_trigger"}
    /\ \/ /\ pc[t] = "insert"
          /\ IF shortcut_exists(shortcut_map, loc[t].shortcut)
             THEN /\ ret' = [ret EXCEPT ![t] = [NoRet EXCEPT !.op = loc[t].op, !.ok = FALSE]]
                  /\ pc' = [pc EXCEPT ![t] = "idle"]
                  /\ loc' = [loc EXCEPT ![t] = NoLoc]
             ELSE /\ pc' = [pc EXCEPT ![t] = "insert_tested"]
                  /\ UNCHANGED <<loc, ret>>
          /\ UNCHANGED shortcut_map
       \/ /\ pc[t] = "insert_tested"
          /\ shortcut_map' = insert(shortcut_map, loc[t].id,
                  [shortcut |-> loc[t].shortcut, trigger |-> loc[t].trigger,
                   internal |-> loc[t].internal, info |-> loc[t].info])
          /\ pc' = [pc EXCEPT ![t] = "post_recheck"]
          /\ UNCHANGED <<loc, ret>>
    /\ UNCHANGED <<gen_ID, event_map, listener_alive, pump, worker, now, ext, history>>

\* add_global_shortcut: the locked block (duplicate test, then insert)
InsertShortcut(t) ==
    /\ pc[t] = "insert"
    /\ lock("shortcut_map")
    /\ loc[t].op \in {"add_global_shortcut", "add_global_shortcut_trigger"}
    /\ IF shortcut_exists(shortcut_map, loc[t].shortcut)
       THEN /\ ret' = [ret EXCEPT ![t] = [NoRet EXCEPT !.op = loc[t].op, !.ok = FALSE]]
            /\ pc' = [pc EXCEPT ![t] = "idle"]
            /\ loc' = [loc EXCEPT ![t] = NoLoc]
            /\ UNCHANGED shortcut_map
       ELSE /\ shortcut_map' = insert(shortcut_map, loc[t].id,
                    [shortcut |-> loc[t].shortcut, trigger |-> loc[t].trigger,
                     internal |-> loc[t].internal, info |-> loc[t].info])
            /\ pc' = [pc EXCEPT ![t] = "post_recheck"]
            /\ UNCHANGED <<loc, ret>>
    /\ UNCHANGED <<gen_ID, event_map, listener_alive, pump, worker, now, ext, history>>

\* del_event_by_id(id)
BeginDelEventById(t, id) ==
    /\ pc[t] = "idle"
    /\ pc' = [pc EXCEPT ![t] = "del_event"]
    /\ loc' = [loc EXCEPT ![t] = [NoLoc EXCEPT !.op = "del_event_by_id", !.id = id]]
    /\ before' = touched(t)
    /\ UNCHANGED <<gen_ID, tables, ret, pump, worker, now, ext, hook_seq, calls,
                   last_update, unchanged, removed>>

\* del_all_events()
BeginDelAllEvents(t) ==
    /\ pc[t] = "idle"
    /\ pc' = [pc EXCEPT ![t] = "del_event"]
    /\ loc' = [loc EXCEPT ![t] = [NoLoc EXCEPT !.op = "del_all_events"]]
    /\ before' = touched(t)
    /\ UNCHANGED <<gen_ID, tables, ret, pump, worker, now, ext, hook_seq, calls,
                   last_update, unchanged, removed>>

\* event_map.lock().remove(&id) / event_map.lock().clear()
DelEvent(t) ==
    /\ pc[t] = "del_event"
    /\ lock("event_map")
    /\ event_map' = IF loc[t].op = "del_all_events" THEN <<>>
                    ELSE remove(event_map, loc[t].id)
    /\ pc' = [pc EXCEPT ![t] = "del_shortcut"]
    /\ UNCHANGED <<gen_ID, shortcut_map, listener_alive, loc, ret, pump, worker, now, ext, history>>

\* the bindings a del call on thread t takes out of the shortcut table
removed_by(t) ==
    {[id |-> i, shortcut |-> shortcut_map[i].shortcut] :
        i \in IF loc[t].op = "del_all_events" THEN DOMAIN shortcut_map
              ELSE {loc[t].id} \cap DOMAIN shortcut_map}

\* del_event_by_id / del_all_events leaving the shortcut table alone
DelShortcutKeeps(t) ==
    /\ pc[t] = "del_shortcut"
    /\ removed' = removed_by(t)
    /\ pc' = [pc EXCEPT ![t] = "post_recheck"]
    /\ UNCHANGED <<gen_ID, tables, loc, ret, pump, worker, now, ext, hook_seq, calls,
                   last_update, unchanged, before>>

\* shortcut_map.lock().remove(&id) / shortcut_map.lock().clear()
DelShortcut(t) ==
    /\ pc[t] = "del_shortcut"
    /\ lock("shortcut_map")
    /\ shortcut_map' = IF loc[t].op = "del_all_events" THEN <<>>
                       ELSE remove(shortcut_map, loc[t].id)
    /\ removed' = removed_by(t)
    /\ pc' = [pc EXCEPT ![t] = "post_recheck"]
    /\ UNCHANGED <<gen_ID, event_map, listener_alive, loc, ret, pump, worker, now, ext, hook_seq, calls,
                   last_update, unchanged, before>>

\* post_recheck_hook(), then the call returns: Ok(id) from an add, () from a del
PostRecheck(t) ==
    /\ pc[t] = "post_recheck"
    /\ loop_msgs' = post_msg_to_loop(loop_thread_id, loop_msgs)
    /\ ret' = [ret EXCEPT ![t] = [NoRet EXCEPT !.op = loc[t].op,
                                  !.id = IF loc[t].op \in {"del_event_by_id", "del_all_events"}
                                         THEN 0 ELSE loc[t].id]]
    /\ pc' = [pc EXCEPT ![t] = "idle"]
    /\ loc' = [loc EXCEPT ![t] = NoLoc]
    /\ UNCHANGED <<gen_ID, tables, loop_pc, loop_thread_id, kb_hook, mouse_hook,
                   keyboard_event_ids, mouse_event_ids, last_time, worker, now, ext, history>>

\* the values of startup's argument work_thread: Option<bool>
WorkThreadArgs == {"None", "Some(true)", "Some(false)"}

\* Worker::run of the Listener's Worker: let threading = with_thread.unwrap_or(false)
threading(with_thread) == with_thread = "Some(true)"

\* startup(work_thread): run_with_thread spawns the pump thread, Worker::run
\* creates the channel and either spawns the worker loop and returns its
\* join handle, or runs the worker loop on the caller's thread
StartupWith(t, work_thread) ==
    /\ pc[t] = "idle"
    /\ loop_pc = "none"
    /\ worker_pc = "none"
    /\ loop_pc' = "spawned"
    /\ msg_sender' = TRUE
    /\ chan' = <<>>
    /\ worker_pc' = "running"
    /\ IF threading(work_thread)
       THEN /\ ret' = [ret EXCEPT ![t] = [NoRet EXCEPT !.op = "startup", !.handle = TRUE]]
            /\ UNCHANGED <<pc, loc>>
       ELSE /\ pc' = [pc EXCEPT ![t] = "worker_loop"]
            /\ loc' = [loc EXCEPT ![t] = [NoLoc EXCEPT !.op = "startup"]]
            /\ UNCHANGED ret
    /\ UNCHANGED <<gen_ID, tables, loop_thread_id, loop_msgs, kb_hook, mouse_hook,
                   keyboard_event_ids, mouse_event_ids, last_time, kbstate, tasks,
                   now, ext, history>>

\* startup(Some(true))
Startup(t) == StartupWith(t, "Some(true)")

\* startup(Some(false)) / startup(None): the worker loop run inline has
\* ended, run returns None
StartupReturn(t) ==
    /\ pc[t] = "worker_loop"
    /\ worker_pc = "exited"
    /\ pc' = [pc EXCEPT ![t] = "idle"]
    /\ loc' = [loc EXCEPT ![t] = NoLoc]
    /\ ret' = [ret EXCEPT ![t] = [NoRet EXCEPT !.op = "startup"]]
    /\ UNCHANGED <<gen_ID, tables, pump, worker, now, ext, history>>

(***************************************************************************)
(* Pump thread (EventLoop).                                                *)
(***************************************************************************)
\* the flags computed by EventLoop::recheck_hook from the two tables: the
\* keyboard flag found from the subscriptions is then assigned from the
\* shortcut table's length
set_keyboard_flag(emap, smap) ==
    LET from_events == \E i \in DOMAIN emap : emap[i] \in {"All", "KeyboardEvent"}
    IN  Cardinality(DOMAIN smap) > 0

set_mouse_flag_shortcuts(emap, smap) ==
    \/ \E i \in DOMAIN emap : emap[i] \in {"All", "MouseEvent"}
    \/ Cardinality(DOMAIN smap) > 0

set_mouse_flag(emap, smap) ==
    \E i \in DOMAIN emap : emap[i] \in {"All", "MouseEvent"}

\* recheck_hook with the Listener upgraded: set_keyboard_hook / unhook_keyboard,
\* set_mouse_hook / unhook_mouse.  kb_ok and mouse_ok are the results of
\* SetWindowsHookExW.
recheck_hook_tables(kb_ok, mouse_ok) ==
    /\ IF set_keyboard_flag(event_map, shortcut_map)
       THEN IF kb_hook \/ ~kb_ok
            THEN UNCHANGED <<kb_hook, keyboard_event_ids>>
            ELSE /\ kb_hook' = TRUE
                 /\ keyboard_event_ids' = Append(keyboard_event_ids, LoopId)
       ELSE IF kb_hook
            THEN /\ kb_hook' = FALSE
                 /\ keyboard_event_ids' = retain_ne(keyboard_event_ids, LoopId)
            ELSE UNCHANGED <<kb_hook, keyboard_event_ids>>
    /\ IF set_mouse_flag(event_map, shortcut_map)
       THEN IF mouse_hook \/ ~mouse_ok
            THEN UNCHANGED <<mouse_hook, mouse_event_ids>>
            ELSE /\ mouse_hook' = TRUE
                 /\ mouse_event_ids' = Append(mouse_event_ids, LoopId)
       ELSE IF mouse_hook
            THEN /\ mouse_hook' = FALSE
                 /\ mouse_event_ids' = retain_ne(mouse_event_ids, LoopId)
            ELSE UNCHANGED <<mouse_hook, mouse_event_ids>>

\* recheck_hook: nothing is done when self.listener.upgrade() is None
recheck_hook(kb_ok, mouse_ok) ==
    IF listener_alive
    THEN recheck_hook_tables(kb_ok, mouse_ok)
    ELSE UNCHANGED <<kb_hook, keyboard_event_ids, mouse_hook, mouse_event_ids>>

\* run_with_thread's closure: event_loop.recheck_hook() before event_loop.run()
PumpStart(kb_ok, mouse_ok) ==
    /\ loop_pc = "spawned"
    /\ recheck_hook(kb_ok, mouse_ok)
    /\ loop_pc' = "started"
    /\ UNCHANGED <<gen_ID, tables, callers, loop_thread_id, loop_msgs, last_time,
                   worker, now, ext, history>>

\* run: records the thread id, then enters the message loop
PumpRun ==
    /\ loop_pc = "started"
    /\ loop_thread_id' = LoopTid
    /\ loop_pc' = "loop"
    /\ UNCHANGED <<gen_ID, tables, callers, loop_msgs, kb_hook, mouse_hook,
                   keyboard_event_ids, mouse_event_ids, last_time, worker, now, ext, history>>

\* run: GetMessageW returned WM_USER with WM_USER_RECHECK_HOOK
PumpRecheck(kb_ok, mouse_ok) ==
    /\ loop_pc = "loop"
    /\ loop_msgs # <<>>
    /\ Head(loop_msgs) = "RECHECK"
    /\ loop_msgs' = Tail(loop_msgs)
    /\ recheck_hook(kb_ok, mouse_ok)
    /\ UNCHANGED <<gen_ID, tables, callers, loop_pc, loop_thread_id, last_time,
                   worker, now, ext, history>>

(***************************************************************************)
(* Hook callbacks, called by the OS on the pump thread.                    *)
(***************************************************************************)
\* Worker::post_msg, once for every registry entry (post_msg_to_worker)
\* a post that puts the message at the front of the channel
post_msgs_front(ch, ids, msg) ==
    IF msg_sender /\ worker_pc = "running"
    THEN [i \in 1..Len(ids) |-> msg] \o ch
    ELSE ch

post_msgs(ch, ids, msg) ==
    IF msg_sender /\ worker_pc = "running"
    THEN ch \o [i \in 1..Len(ids) |-> msg]
    ELSE ch

\* a hook procedure invocation that left by `path`: every return is
\* return CallNextHookEx(..), the registry guard is a temporary dropped before
\* the posts, and a panic in post_msg_to_worker leaves without any return
chain_next(path) ==
    [path |-> path, calls |-> IF path = "panic" THEN 0 ELSE 1, held |-> {}]

\* post_msg_to_worker of the Listener's EventLoop, called for the registry
\* entries `ids`: self.listener.upgrade().unwrap() panics when the Listener is gone
post_panics(ids) == Len(ids) > 0 /\ ~listener_alive

\* a keyboard_hook_proc that posts whatever the time field is
KeyboardHookProc_no_dedupe(key, state, time) ==
    /\ loop_pc = "loop"
    /\ kb_hook
    /\ hook_seq' = hook_seq + 1
    /\ last_time' = time
    /\ IF FALSE
       THEN /\ hook_call' = chain_next("repeat")
            /\ UNCHANGED <<chan, loop_pc>>
       ELSE IF post_panics(keyboard_event_ids)
            THEN /\ loop_pc' = "panicked"
                 /\ hook_call' = chain_next("panic")
                 /\ UNCHANGED chan
            ELSE /\ chan' = post_msgs(chan, keyboard_event_ids,
                                [type |-> "KeyboardEvent", key_id |-> key, state |-> state,
                                 seq |-> hook_seq + 1])
                 /\ hook_call' = chain_next("posted")
                 /\ UNCHANGED loop_pc
    /\ UNCHANGED <<gen_ID, tables, callers, loop_thread_id, loop_msgs, kb_hook,
                   mouse_hook, keyboard_event_ids, mouse_event_ids, msg_sender, worker_pc,
                   kbstate, tasks, now, frame, other_thread, calls, last_update, unchanged, removed, before>>

\* keyboard_hook_proc with a KBDLLHOOKSTRUCT for `key` whose time field is `time`
KeyboardHookProc(key, state, time) ==
    /\ loop_pc = "loop"
    /\ kb_hook
    /\ hook_seq' = hook_seq + 1
    /\ last_time' = time
    /\ IF last_time = time
       THEN /\ hook_call' = chain_next("repeat")
            /\ UNCHANGED <<chan, loop_pc>>
       ELSE IF post_panics(keyboard_event_ids)
            THEN /\ loop_pc' = "panicked"
                 /\ hook_call' = chain_next("panic")
                 /\ UNCHANGED chan
            ELSE /\ chan' = post_msgs(chan, keyboard_event_ids,
                                [type |-> "KeyboardEvent", key_id |-> key, state |-> state,
                                 seq |-> hook_seq + 1])
                 /\ hook_call' = chain_next("posted")
                 /\ UNCHANGED loop_pc
    /\ UNCHANGED <<gen_ID, tables, callers, loop_thread_id, loop_msgs, kb_hook,
                   mouse_hook, keyboard_event_ids, mouse_event_ids, msg_sender, worker_pc,
                   kbstate, tasks, now, frame, other_thread, calls, last_update, unchanged, removed, before>>

\* mouse_hook_proc with a button message
MouseHookProc ==
    /\ loop_pc = "loop"
    /\ mouse_hook
    /\ hook_seq' = hook_seq + 1
    /\ IF post_panics(mouse_event_ids)
       THEN /\ loop_pc' = "panicked"
            /\ hook_call' = chain_next("panic")
            /\ UNCHANGED chan
       ELSE /\ chan' = post_msgs(chan, mouse_event_ids,
                           [type |-> "MouseEvent", key_id |-> "None", state |-> "None",
                            seq |-> hook_seq + 1])
            /\ hook_call' = chain_next("posted")
            /\ UNCHANGED loop_pc
    /\ UNCHANGED <<gen_ID, tables, callers, loop_thread_id, loop_msgs, kb_hook, mouse_hook,
                   keyboard_event_ids, mouse_event_ids, last_time, msg_sender, worker_pc,
                   kbstate, tasks, now, frame, other_thread, calls, last_update, unchanged, removed, before>>

(***************************************************************************)
(* Worker loop.                                                            *)
(***************************************************************************)
\* the keyboard state's update with (key, state)
update_key(s, key, state) ==
    IF state = "Pressed" THEN set_key(s, key) ELSE remove_key(s, key)

\* translate_msg without the comparison of the old and the new state
translate_msg_always(old, msg) ==
    [type |-> "KeyboardEvent", key_id |-> msg.key_id, state |-> msg.state,
     keyboard_state |-> update_key(old, msg.key_id, msg.state), seq |-> msg.seq]

\* KeyboardSysMsg::translate_msg on the state `old`: the event, of type "None"
\* when the message is dropped
translate_msg(old, msg) ==
    LET new == update_key(old, msg.key_id, msg.state)
    IN  [type |-> IF ShortcutEq(old, new) THEN "None" ELSE "KeyboardEvent",
         key_id |-> msg.key_id, state |-> msg.state,
         keyboard_state |-> new, seq |-> msg.seq]

\* worker_loop: rx.recv() of a keyboard message
WorkerRecvKeyboard ==
    /\ worker_pc = "running"
    /\ chan # <<>>
    /\ Head(chan).type = "KeyboardEvent"
    /\ chan' = Tail(chan)
    /\ LET msg == Head(chan)
           event == translate_msg(kbstate, msg)
       IN  /\ kbstate' = update_key(kbstate, msg.key_id, msg.state)
           /\ last_update' = [last_update EXCEPT ![msg.key_id] = msg.state]
           /\ unchanged' = IF kbstate' = kbstate THEN unchanged \cup {msg.seq} ELSE unchanged
           /\ tasks' = IF event.type = "None" THEN tasks ELSE tasks \cup {event}
    /\ UNCHANGED <<gen_ID, tables, callers, pump, msg_sender, worker_pc, now, ext,
                   hook_seq, calls, removed, before>>

\* worker_loop: rx.recv() of a mouse message
WorkerRecvMouse ==
    /\ worker_pc = "running"
    /\ chan # <<>>
    /\ Head(chan).type = "MouseEvent"
    /\ chan' = Tail(chan)
    /\ tasks' = tasks \cup {[type |-> "MouseEvent", key_id |-> "None", state |-> "None",
                             keyboard_state |-> ShortcutDefault, seq |-> Head(chan).seq]}
    /\ UNCHANGED <<gen_ID, tables, callers, pump, msg_sender, worker_pc, kbstate, now, ext,
                   history>>

(***************************************************************************)
(* Listener::on_event, run by a handler thread.                            *)
(***************************************************************************)
\* filter_events without the test for EventType::All
filter_events_same_variant(emap, event) ==
    {i \in DOMAIN emap : emap[i] = event.type}

\* filter_events, and the loop of on_event over its result: the ids of the
\* subscriptions whose callback is called with the event (the table holds one
\* entry per id, and the loop calls each entry's callback once)
filter_events(emap, event) ==
    {i \in DOMAIN emap : emap[i] = "All" \/ emap[i] = event.type}

\* shortcut.is_input_match(&usb_input) of filter_shortcut: the bound shortcut
\* matches the keyboard state carried by the event
is_input_match(shortcut, keyboard_state) == is_match(shortcut, keyboard_state)

\* filter_shortcut without the modifier-transition test
shortcut_hit_unguarded(smap, event, i) == i

\* the binding filter_shortcut stops at, when the table iteration meets binding i first
shortcut_hit(smap, event, i) ==
    IF has_modifier(smap[i].shortcut) /\ has_normal_key(smap[i].shortcut)
       /\ is_modifier(event.key_id)
    THEN 0
    ELSE i

\* filter_shortcut without the test of the key's state
filter_shortcut_any_state(smap, event) ==
    IF event.type # "KeyboardEvent" THEN {0}
    ELSE LET matching == {i \in DOMAIN smap :
                                is_input_match(smap[i].shortcut, event.keyboard_state)}
         IN  IF matching = {} THEN {0}
             ELSE {shortcut_hit(smap, event, i) : i \in matching}

\* filter_shortcut: the ids it may return (0 is None); the HashMap iteration
\* order decides which matching binding is met first
filter_shortcut(smap, event) ==
    IF event.type # "KeyboardEvent" THEN {0}
    ELSE IF event.state # "Pressed" THEN {0}
    ELSE LET matching == {i \in DOMAIN smap :
                                is_input_match(smap[i].shortcut, event.keyboard_state)}
         IN  IF matching = {} THEN {0}
             ELSE {shortcut_hit(smap, event, i) : i \in matching}

\* the handler on a spawned handler thread when listener.upgrade() is None:
\* the event is dropped
OnEventDropped(event) ==
    /\ event \in tasks
    /\ ~listener_alive
    /\ tasks' = tasks \ {event}
    /\ UNCHANGED <<gen_ID, tables, callers, pump, msg_sender, worker_pc, chan, kbstate,
                   now, ext, history>>

\* on_event(event) on a spawned handler thread, the Listener upgraded
OnEvent(event) ==
    /\ event \in tasks
    /\ listener_alive
    /\ tasks' = tasks \ {event}
    /\ \E hit \in filter_shortcut(shortcut_map, event) :
         LET b == shortcut_map[hit]
             g == gate(b.info, b.trigger, b.internal, now)
             gated == hit # 0 /\ b.trigger > 0
             user == IF hit = 0 THEN FALSE
                     ELSE IF gated THEN g.need_trigger ELSE TRUE
         IN  /\ shortcut_map' = IF gated
                                THEN [shortcut_map EXCEPT ![hit].info = g.info]
                                ELSE shortcut_map
             /\ calls' = Append(calls,
                    [seq |-> event.seq, type |-> event.type, key_id |-> event.key_id,
                     state |-> event.state, keyboard_state |-> event.keyboard_state,
                     event_cbs |-> filter_events(event_map, event),
                     shortcut_cb |-> hit,
                     shortcut |-> IF hit = 0 THEN ShortcutDefault ELSE b.shortcut,
                     gate_before |-> IF gated THEN b.info ELSE TriggerInfoNew(0),
                     gate_after |-> IF gated THEN g.info ELSE TriggerInfoNew(0),
                     user_cb |-> user, time |-> now])
    /\ UNCHANGED <<gen_ID, event_map, listener_alive, callers, pump, msg_sender, worker_pc, chan, kbstate,
                   now, ext, hook_seq, last_update, unchanged, removed, before>>

\* the clock
Tick ==
    /\ now < MaxTime
    /\ now' = now + 1
    /\ UNCHANGED <<gen_ID, tables, callers, pump, worker, history, ext>>

(***************************************************************************)
(* Inputs.                                                                 *)
(***************************************************************************)
KeyStates == {"Pressed", "Released"}

\* the OS time stamp of a hook invocation: that of the previous one, or a later one
HookTimes == {last_time, last_time + 1}

CtrlA == ShortcutNew(<<"Control", "UsA">>)
CtrlLeftA == ShortcutNew(<<"ControlLeft", "UsA">>)
CtrlCV == ShortcutNew(<<"Control", "UsC", "UsV">>)
CtrlVC == ShortcutNew(<<"Control", "UsV", "UsC">>)
AltLeftOnly == ShortcutNew(<<"AltLeft">>)
CtrlOnly == ShortcutNew(<<"Control">>)
KeyA == ShortcutNew(<<"UsA">>)
CtrlAltA == ShortcutNew(<<"Control", "Alt", "UsA">>)
AltCtrlA == ShortcutNew(<<"Alt", "Control", "UsA">>)

\* the steps of add_global_shortcut / add_global_shortcut_trigger in progress on thread t
AddShortcutStep(t) ==
    \/ GenIdLoad(t)
    \/ GenIdStore(t)
    \/ InsertShortcut(t)
    \/ PostRecheck(t)

\* the steps of del_event_by_id / del_all_events in progress on thread t
DelStep(t) ==
    \/ DelEvent(t)
    \/ DelShortcut(t)

\* the pump thread from its spawn to its message loop, every hook installation succeeding
PumpBoot ==
    \/ PumpStart(TRUE, TRUE)
    \/ PumpRun

(***************************************************************************)
(* Spec: one caller thread binds shortcuts and subscribes, the listener is *)
(* started, and keyboard hook invocations are dispatched.                  *)
(***************************************************************************)
SpecShortcuts == {CtrlA, KeyA}
SpecKeys == {"ControlLeft", "UsA"}

Next ==
    \/ \E sc \in SpecShortcuts :
            loop_pc = "none" /\ gen_ID < MaxId /\ BeginAddGlobalShortcut("t1", sc)
    \/ loop_pc = "none" /\ gen_ID < MaxId /\ BeginAddEventListener("t1", "None")
    \/ AddShortcutStep("t1")
    \/ InsertEvent("t1")
    \/ Startup("t1")
    \/ PumpBoot
    \/ \E k \in SpecKeys, st \in KeyStates, time \in HookTimes :
            hook_seq < MaxHookEvents /\ KeyboardHookProc(k, st, time)
    \/ WorkerRecvKeyboard
    \/ \E e \in tasks : OnEvent(e)

Spec == Init /\ [][Next]_vars

(***************************************************************************)
(* Properties of Spec.                                                     *)
(***************************************************************************)
Calls == {calls[i] : i \in 1..Len(calls)}

\* C1: after any sequence of updates of the keyboard state (set_key on Pressed,
\* remove_key on Released), starting from the empty state, the keys it holds
\* are exactly the keys whose most recent update was Pressed.
C1_PressedKeys ==
    KeysOf(kbstate) = {k \in Keys : last_update[k] = "Pressed"}

\* a modifier and a normal key were pressed, the normal key was released again
C1_Witness ==
    /\ last_update["ControlLeft"] = "Pressed"
    /\ last_update["UsA"] = "Released"
    /\ KeysOf(kbstate) = {"ControlLeft"}

\* C2: a keyboard message whose update leaves the keyboard state unchanged is
\* handed to no handler: no subscription callback and no shortcut callback
\* runs for it.
C2_UnchangedNotDelivered ==
    /\ \A c \in Calls : c.seq \notin unchanged
    /\ \A e \in tasks : e.seq \notin unchanged

\* an auto-repeat (or a release of a key not held) was received after a
\* delivered event, with a subscription in the table, and everything is handled
C2_Witness ==
    /\ unchanged # {}
    /\ chan = <<>>
    /\ tasks = {}
    /\ \E c \in Calls : c.event_cbs # {} /\ c.seq + 1 \in unchanged

\* C3: the callback of a binding that has a modifier and a normal key is never
\* invoked by a keyboard event whose transitioning key is a modifier.
C3_NoFireOnModifierTransition ==
    \A c \in Calls :
        (c.shortcut_cb # 0 /\ has_modifier(c.shortcut) /\ has_normal_key(c.shortcut))
            => ~is_modifier(c.key_id)

\* Ctrl+A is bound, A went down before Ctrl: the event of Ctrl-down carries a
\* state that matches Ctrl+A and invoked nothing
C3_Witness ==
    \E c \in Calls :
        /\ c.key_id = "ControlLeft"
        /\ c.state = "Pressed"
        /\ is_match(CtrlA, c.keyboard_state)
        /\ \E i \in DOMAIN shortcut_map : shortcut_map[i].shortcut = CtrlA
        /\ c.shortcut_cb = 0

(***************************************************************************)
(* SpecS2: scenario S2.  One single-trigger binding of a modifier plus a   *)
(* normal key is made, the listener is started, and the hook is fed        *)
(* Ctrl-down, A-down, A-up, Ctrl-up.                                       *)
(***************************************************************************)
S2Script == << [key |-> "ControlLeft", state |-> "Pressed"],
               [key |-> "UsA", state |-> "Pressed"],
               [key |-> "UsA", state |-> "Released"],
               [key |-> "ControlLeft", state |-> "Released"] >>

NextS2 ==
    \/ \E sc \in {CtrlA, CtrlLeftA} :
            gen_ID = LoopId /\ loop_pc = "none" /\ BeginAddGlobalShortcut("t1", sc)
    \/ AddShortcutStep("t1")
    \/ shortcut_map # <<>> /\ Startup("t1")
    \/ PumpBoot
    \/ \E time \in HookTimes :
            /\ hook_seq < Len(S2Script)
            /\ KeyboardHookProc(S2Script[hook_seq + 1].key, S2Script[hook_seq + 1].state, time)
    \/ WorkerRecvKeyboard
    \/ \E e \in tasks : OnEvent(e)

SpecS2 == Init /\ [][NextS2]_vars

UserCalls == {i \in 1..Len(calls) : calls[i].user_cb}

\* C4: with a single-trigger binding of one modifier plus one normal key, the
\* input sequence modifier-down, key-down, key-up, modifier-up invokes the
\* callback exactly once, on the dispatch of the normal key's down event.
C4_OnceAtKeyDown ==
    /\ \A i \in UserCalls :
            calls[i].seq = 2 /\ calls[i].key_id = "UsA" /\ calls[i].state = "Pressed"
    /\ Cardinality(UserCalls) <= 1
    /\ Len(calls) = Len(S2Script) => Cardinality(UserCalls) = 1

\* the four events were dispatched and the callback ran once
C4_Witness ==
    /\ Len(calls) = Len(S2Script)
    /\ Cardinality(UserCalls) = 1

(***************************************************************************)
(* SpecGate: a multi-press binding of AltLeft with count N and window      *)
(* WindowMs is made, the listener is started, and the hook is fed          *)
(* AltLeft-down, AltLeft-up, ... while the clock advances; each transition *)
(* is dispatched before the next one arrives.                              *)
(***************************************************************************)
GateCounts == {2, 3}

NextGate ==
    \/ \E n \in GateCounts :
            /\ gen_ID = LoopId
            /\ loop_pc = "none"
            /\ BeginAddGlobalShortcutTrigger("t1", AltLeftOnly, n, WindowMs)
    \/ AddShortcutStep("t1")
    \/ shortcut_map # <<>> /\ Startup("t1")
    \/ PumpBoot
    \/ /\ hook_seq < MaxGateEvents
       /\ chan = <<>> /\ tasks = {}
       /\ KeyboardHookProc("AltLeft",
                IF hook_seq % 2 = 0 THEN "Pressed" ELSE "Released", last_time + 1)
    \/ WorkerRecvKeyboard
    \/ \E e \in tasks : OnEvent(e)
    \/ loop_pc = "loop" /\ Tick

SpecGate == Init /\ [][NextGate]_vars

\* the gate firings so far, in the order the gate ran
Firings == SelectSeq(calls, LAMBDA c : c.shortcut_cb # 0)

\* firing k came less than the window after firing k - 1
InWindow(F, k) == F[k].time - F[k - 1].time < shortcut_map[F[k].shortcut_cb].internal

\* C5: for a multi-press binding with count N >= 2 and window W, in a run of
\* gate firings each less than W ms after the previous one, the user callback
\* is invoked on the N-th, 2N-th, ... firing and on no other, and the counter
\* is zero again after each invocation.
C5_OncePerNFirings ==
    LET F == Firings
    IN  \A j \in 1..Len(F) :
            (\A k \in 2..j : InWindow(F, k)) =>
                /\ F[j].user_cb <=> (j % shortcut_map[F[j].shortcut_cb].trigger = 0)
                /\ F[j].user_cb => F[j].gate_after.trigger = 0

\* four in-window firings at advancing times with N = 2: invoked on the 2nd and the 4th
C5_Witness ==
    LET F == Firings
    IN  /\ Len(F) = 4
        /\ shortcut_map[F[1].shortcut_cb].trigger = 2
        /\ \A k \in 2..4 : InWindow(F, k)
        /\ F[1].time < F[2].time /\ F[2].time < F[3].time
        /\ ~F[1].user_cb /\ F[2].user_cb /\ ~F[3].user_cb /\ F[4].user_cb

\* C6: in the multi-press gate with count N >= 2 and window W, a firing that
\* finds the counter non-zero at least W ms after the previous firing starts a
\* new sequence: the counter becomes 1, the user callback is not invoked, and
\* the callback runs only after N - 1 further in-window firings.
C6_LateFiringStartsNewSequence ==
    LET F == Firings
    IN  \A j \in 1..Len(F) :
            LET n == shortcut_map[F[j].shortcut_cb].trigger
                w == shortcut_map[F[j].shortcut_cb].internal
            IN  (F[j].gate_before.trigger # 0
                 /\ F[j].time - F[j].gate_before.last_trigger_time >= w) =>
                    /\ F[j].gate_after.trigger = 1
                    /\ ~F[j].user_cb
                    /\ \A m \in 1..(Len(F) - j) :
                            (\A k \in (j + 1)..(j + m) : InWindow(F, k)) =>
                                (F[j + m].user_cb <=> ((m + 1) % n = 0))

\* N = 3: the second firing comes late with the counter at 1, the callback
\* runs on the second in-window firing after it
C6_Witness ==
    LET F == Firings
    IN  /\ Len(F) = 4
        /\ shortcut_map[F[1].shortcut_cb].trigger = 3
        /\ F[2].gate_before.trigger = 1
        /\ F[2].time - F[2].gate_before.last_trigger_time >= WindowMs
        /\ InWindow(F, 3) /\ InWindow(F, 4)
        /\ ~F[2].user_cb /\ ~F[3].user_cb /\ F[4].user_cb

(***************************************************************************)
(* SpecS3: "Ctrl+C+V" and "Ctrl+V+C" are both bound, the listener is       *)
(* started, Ctrl goes down and then C and V go down and up in any order.   *)
(***************************************************************************)
NextS3 ==
    \/ \E sc \in {CtrlCV, CtrlVC} :
            /\ loop_pc = "none"
            /\ \A i \in DOMAIN shortcut_map : shortcut_map[i].shortcut # sc
            /\ BeginAddGlobalShortcut("t1", sc)
    \/ AddShortcutStep("t1")
    \/ Cardinality(DOMAIN shortcut_map) = 2 /\ Startup("t1")
    \/ PumpBoot
    \/ \E time \in HookTimes :
            hook_seq = 0 /\ KeyboardHookProc("ControlLeft", "Pressed", time)
    \/ \E k \in {"UsC", "UsV"}, st \in KeyStates, time \in HookTimes :
            /\ hook_seq > 0
            /\ hook_seq < MaxChordEvents
            /\ KeyboardHookProc(k, st, time)
    \/ WorkerRecvKeyboard
    \/ \E e \in tasks : OnEvent(e)

SpecS3 == Init /\ [][NextS3]_vars

\* the keyboard state after ControlLeft and then the normal keys `keys` went down
Chord(keys) == [modifiers |-> <<"ControlLeft">>, normal_keys |-> keys]

\* C7: "Ctrl+C+V" and "Ctrl+V+C" are distinct bindings that can both be
\* registered, and matching follows the press order: Ctrl, C, V pressed in
\* that order invokes only the callback of "Ctrl+C+V", and Ctrl, V, C only
\* that of "Ctrl+V+C".
C7_MatchFollowsPressOrder ==
    /\ \A t \in Threads : ret[t].ok
    /\ \A c \in Calls :
        /\ c.shortcut_cb # 0 => c.shortcut.normal_keys = c.keyboard_state.normal_keys
        /\ (c.state = "Pressed" /\ c.keyboard_state = Chord(<<"UsC", "UsV">>)) =>
                (c.user_cb /\ c.shortcut = CtrlCV)
        /\ (c.state = "Pressed" /\ c.keyboard_state = Chord(<<"UsV", "UsC">>)) =>
                (c.user_cb /\ c.shortcut = CtrlVC)

\* both bindings are in the table, Ctrl, C, V went down (the first callback ran),
\* C went up and down again (the second callback ran)
C7_Witness ==
    /\ Cardinality(DOMAIN shortcut_map) = 2
    /\ \E c \in Calls : c.user_cb /\ c.shortcut = CtrlCV /\ c.key_id = "UsV"
    /\ \E c \in Calls : c.user_cb /\ c.shortcut = CtrlVC /\ c.key_id = "UsC"

(***************************************************************************)
(* SpecSeq: one caller thread makes add and del calls one after the other. *)
(***************************************************************************)
TableShortcuts == {CtrlAltA, AltCtrlA, KeyA}
AddOps == {"add_global_shortcut", "add_global_shortcut_trigger"}
DelOps == {"del_event_by_id", "del_all_events"}

NextSeq ==
    \/ \E sc \in TableShortcuts :
            gen_ID < MaxTableId /\ BeginAddGlobalShortcut("t1", sc)
    \/ \E sc \in TableShortcuts :
            gen_ID < MaxTableId /\ BeginAddGlobalShortcutTrigger("t1", sc, 2, WindowMs)
    \/ \E et \in {"None", "KeyboardEvent", "MouseEvent"} :
            gen_ID < MaxTableId /\ BeginAddEventListener("t1", et)
    \/ \E id \in 1..MaxTableId : BeginDelEventById("t1", id)
    \/ BeginDelAllEvents("t1")
    \/ AddShortcutStep("t1")
    \/ InsertEvent("t1")
    \/ DelStep("t1")

SpecSeq == Init /\ [][NextSeq]_vars

\* the call in progress on thread t returns with this step
Returns(t) == pc[t] # "idle" /\ pc'[t] = "idle"

\* the arguments of the call thread t is in, or enters with this step
CallOf(t) == IF pc[t] = "idle" THEN loc'[t] ELSE loc[t]

\* C8: add_global_shortcut called with a shortcut equal to one already in the
\* shortcut table returns an error and leaves the shortcut table and the
\* subscription table exactly as they were before the call: no step of the
\* call, from its entry to its return, changes either table, it does not go on
\* to post the recheck, and it returns Err.
C8_DuplicateRejected ==
    [][\A t \in Threads :
        (/\ pc'[t] # pc[t]
         /\ pc[t] # "post_recheck"
         /\ CallOf(t).op \in AddOps
         /\ \E i \in DOMAIN shortcut_map :
                ShortcutEq(shortcut_map[i].shortcut, CallOf(t).shortcut)) =>
            /\ <<event_map', shortcut_map'>> = <<event_map, shortcut_map>>
            /\ pc'[t] # "post_recheck"
            /\ Returns(t) => ~ret'[t].ok]_vars

\* a duplicate add has returned its error with both tables non-empty
C8_Witness ==
    /\ pc["t1"] = "idle"
    /\ ret["t1"].op = "add_global_shortcut"
    /\ ~ret["t1"].ok
    /\ event_map # <<>>
    /\ \E i \in DOMAIN shortcut_map : shortcut_map[i].shortcut = AltCtrlA

\* C10: after a binding is removed by del_event_by_id(id1) or del_all_events,
\* the next add_global_shortcut with an equal shortcut succeeds and returns an
\* id different from id1.
C10_RebindAfterDelete ==
    [][\A t \in Threads :
        (Returns(t) /\ loc[t].op = "add_global_shortcut" /\ ret[t].op \in DelOps) =>
            \A r \in removed :
                ShortcutEq(r.shortcut, loc[t].shortcut) =>
                    (ret'[t].ok /\ ret'[t].id # r.id)]_vars

\* a binding was deleted and an equal shortcut is bound again, under another id
C10_Witness ==
    /\ pc["t1"] = "idle"
    /\ ret["t1"].op = "add_global_shortcut"
    /\ ret["t1"].ok
    /\ ret["t1"].id \in DOMAIN shortcut_map
    /\ \E r \in removed :
        /\ ShortcutEq(r.shortcut, shortcut_map[ret["t1"].id].shortcut)
        /\ r.id # ret["t1"].id

(***************************************************************************)
(* SpecTables: two caller threads make add_global_shortcut,                *)
(* add_global_shortcut_trigger, del_event_by_id and del_all_events calls   *)
(* whose steps interleave.                                                 *)
(***************************************************************************)
NextTables ==
    \/ \E t \in Threads, sc \in {CtrlAltA, AltCtrlA} :
            gen_ID < MaxRaceId /\ BeginAddGlobalShortcut(t, sc)
    \/ \E t \in Threads :
            gen_ID < MaxRaceId /\ BeginAddGlobalShortcutTrigger(t, KeyA, 2, WindowMs)
    \/ \E t \in Threads, id \in 2..(MaxRaceId + 1) : BeginDelEventById(t, id)
    \/ \E t \in Threads : BeginDelAllEvents(t)
    \/ \E t \in Threads : AddShortcutStep(t)
    \/ \E t \in Threads : DelStep(t)

SpecTables == Init /\ [][NextTables]_vars

\* C9: under any interleaving of add_global_shortcut, add_global_shortcut_trigger,
\* del_event_by_id and del_all_events calls from several caller threads, no two
\* entries of the shortcut table hold equal shortcuts.
C9_NoEqualShortcuts ==
    \A i, j \in DOMAIN shortcut_map :
        i # j => ~ShortcutEq(shortcut_map[i].shortcut, shortcut_map[j].shortcut)

\* one thread bound Alt+Ctrl+A and the other thread's add of Ctrl+Alt+A was rejected
C9_Witness ==
    /\ \E t, u \in Threads :
        /\ t # u
        /\ ret[t].op \in AddOps /\ ~ret[t].ok
        /\ ret[u].op \in AddOps /\ ret[u].ok
        /\ ret[u].id \in DOMAIN shortcut_map
        /\ shortcut_map[ret[u].id].shortcut = AltCtrlA

(***************************************************************************)
(* SpecValues: the caller threads build Shortcut values with Shortcut::new *)
(* and change them with set_key and remove_key.  loc[t].shortcut is the    *)
(* value thread t holds.                                                   *)
(***************************************************************************)
ValueKeys == {"Control", "ControlLeft", "ControlRight", "Alt", "AltLeft", "UsA", "UsC"}

held(s) == Len(s.modifiers) + Len(s.normal_keys)

\* let s = Shortcut::new(vec![key])
BuildNew(t, key) ==
    /\ pc[t] = "idle"
    /\ loc' = [loc EXCEPT ![t].shortcut = ShortcutNew(<<key>>)]
    /\ UNCHANGED <<gen_ID, tables, pc, ret, pump, worker, now, ext, history>>

\* s.set_key(key)
BuildSetKey(t, key) ==
    /\ pc[t] = "idle"
    /\ held(loc[t].shortcut) < MaxKeysHeld
    /\ loc' = [loc EXCEPT ![t].shortcut = set_key(@, key)]
    /\ UNCHANGED <<gen_ID, tables, pc, ret, pump, worker, now, ext, history>>

\* s.remove_key(key)
BuildRemoveKey(t, key) ==
    /\ pc[t] = "idle"
    /\ loc' = [loc EXCEPT ![t].shortcut = remove_key(@, key)]
    /\ UNCHANGED <<gen_ID, tables, pc, ret, pump, worker, now, ext, history>>

NextValues ==
    \/ \E t \in Threads, k \in ValueKeys : BuildNew(t, k)
    \/ \E t \in Threads, k \in ValueKeys : BuildSetKey(t, k)
    \/ \E t \in Threads, k \in ValueKeys : BuildRemoveKey(t, k)

SpecValues == Init /\ [][NextValues]_vars

\* C11: is_match is reflexive: every Shortcut s built by new / set_key, also one
\* holding a generic modifier together with a side-specific one of its class,
\* has s.is_match(s), and s.is_match(t) whenever s == t.
C11_IsMatchReflexive ==
    \A t, u \in Threads :
        ShortcutEq(loc[t].shortcut, loc[u].shortcut) =>
            is_match(loc[t].shortcut, loc[u].shortcut)

\* The binding (self) and the keyboard state (other) of the is_match checks.
Binding == loc["t1"].shortcut
State == loc["t2"].shortcut

is_generic(m) == Cardinality(modifier(m)) = 2
ClassOf(m) == CHOOSE g \in ModifierKeys : is_generic(g) /\ modifier(m) \subseteq modifier(g)
\* k is m itself, or m is generic and k is one of its side-specific variants
VariantOf(k, m) == k = m \/ (is_generic(m) /\ ~is_generic(k) /\ ClassOf(k) = m)
OnePerClass(s) ==
    \A i, j \in 1..Len(s.modifiers) :
        i # j => ClassOf(s.modifiers[i]) # ClassOf(s.modifiers[j])
\* other holds, for every modifier of self, that modifier or a variant of it,
\* one for one, and the same normal keys
Refines(self, other) ==
    /\ Len(self.modifiers) = Len(other.modifiers)
    /\ self.normal_keys = other.normal_keys
    /\ \A i \in 1..Len(self.modifiers) : \E j \in 1..Len(other.modifiers) :
           VariantOf(other.modifiers[j], self.modifiers[i])

\* C12: specificity rule of is_match.  A binding holding one modifier per class
\* matches exactly the states that hold, for each of its modifiers, that
\* modifier or (for a generic one) a side-specific variant of it, with the same
\* normal keys; and no binding at all matches a state with another modifier
\* count, with a modifier that is neither its own nor a variant of a generic one
\* (the generic for a side-specific one, the other side, another class), or
\* with another normal-key list.
C12_Specificity ==
    /\ OnePerClass(Binding) => (is_match(Binding, State) <=> Refines(Binding, State))
    /\ is_match(Binding, State) => Refines(Binding, State)

C12_Witness ==
    /\ Binding = [modifiers |-> <<"Control">>, normal_keys |-> <<"UsA">>]
    /\ State = [modifiers |-> <<"ControlRight">>, normal_keys |-> <<"UsA">>]
    /\ is_match(Binding, State)
    /\ ~is_match(State, Binding)

\* C14: == holds exactly when the two shortcuts hold the same modifiers, in any
\* order and with a generic modifier distinct from its side-specific variants,
\* and the same normal keys in the same order; == is symmetric.
C14_Equality ==
    \A t, u \in Threads :
        /\ ShortcutEq(loc[t].shortcut, loc[u].shortcut)
             <=> /\ Range(loc[t].shortcut.modifiers) = Range(loc[u].shortcut.modifiers)
                 /\ loc[t].shortcut.normal_keys = loc[u].shortcut.normal_keys
        /\ ShortcutEq(loc[t].shortcut, loc[u].shortcut)
             <=> ShortcutEq(loc[u].shortcut, loc[t].shortcut)

C14_Witness ==
    /\ loc["t1"].shortcut = [modifiers |-> <<"ControlLeft", "Alt">>, normal_keys |-> <<"UsA">>]
    /\ loc["t2"].shortcut = [modifiers |-> <<"Alt", "ControlLeft">>, normal_keys |-> <<"UsA">>]
    /\ ShortcutEq(loc["t1"].shortcut, loc["t2"].shortcut)
    /\ ~ShortcutEq(loc["t1"].shortcut,
                   [modifiers |-> <<"Control", "Alt">>, normal_keys |-> <<"UsA">>])

(***************************************************************************)
(* Display and from_str of Shortcut.  A string is the sequence of its      *)
(* characters.                                                             *)
(***************************************************************************)
ParseKeys == {"Control", "ControlLeft", "Alt", "UsA", "UsC", "ContextMenu"}

\* VirtualKeyId's Display: the name of the identifier
key_to_string(key) ==
    CASE key = "Control" -> <<"C", "o", "n", "t", "r", "o", "l">>
      [] key = "ControlLeft" -> <<"C", "o", "n", "t", "r", "o", "l", "L", "e", "f", "t">>
      [] key = "Alt" -> <<"A", "l", "t">>
      [] key = "UsA" -> <<"U", "s", "A">>
      [] key = "UsC" -> <<"U", "s", "C">>
      [] key = "ContextMenu" -> <<"C", "o", "n", "t", "e", "x", "t", "M", "e", "n", "u">>

\* VirtualKeyId::from_str: the identifier with that name, or Err
VirtualKeyId_from_str(name) ==
    IF \E k \in ParseKeys : key_to_string(k) = name
    THEN [ok |-> TRUE, key |-> CHOOSE k \in ParseKeys : key_to_string(k) = name]
    ELSE [ok |-> FALSE, key |-> "none"]

\* str::replace: every non-overlapping occurrence of from, left to right
RECURSIVE replace(_, _, _)
replace(str, from, to) ==
    IF Len(str) < Len(from) THEN str
    ELSE IF SubSeq(str, 1, Len(from)) = from
         THEN to \o replace(SubSeq(str, Len(from) + 1, Len(str)), from, to)
         ELSE <<Head(str)>> \o replace(Tail(str), from, to)

\* str::split("+"): the pieces between the separators (one piece when there is none)
RECURSIVE split(_)
split(str) ==
    IF \A i \in 1..Len(str) : str[i] # "+" THEN <<str>>
    ELSE LET i == CHOOSE i \in 1..Len(str) :
                    str[i] = "+" /\ \A j \in 1..(i - 1) : str[j] # "+"
         IN  <<SubSeq(str, 1, i - 1)>> \o split(SubSeq(str, i + 1, Len(str)))

\* str::trim
RECURSIVE trim(_)
trim(str) ==
    IF str = <<>> THEN str
    ELSE IF Head(str) = " " THEN trim(Tail(str))
    ELSE IF str[Len(str)] = " " THEN trim(SubSeq(str, 1, Len(str) - 1))
    ELSE str

\* keys.join("+")
RECURSIVE join(_)
join(strs) ==
    IF strs = <<>> THEN <<>>
    ELSE IF Len(strs) = 1 THEN strs[1]
    ELSE strs[1] \o <<"+">> \o join(Tail(strs))

\* impl Display for Shortcut
to_string(s) ==
    LET keys == s.modifiers \o s.normal_keys
    IN  join([i \in 1..Len(keys) |-> key_to_string(keys[i])])

normalize_key(key) ==
    IF Len(key) = 1
    THEN IF VirtualKeyId_from_str(<<"U", "s">> \o key).ok
         THEN VirtualKeyId_from_str(<<"U", "s">> \o key)
         ELSE VirtualKeyId_from_str(key)
    ELSE VirtualKeyId_from_str(
           replace(replace(replace(replace(replace(replace(key,
               <<"C", "t", "r", "l">>, <<"C", "o", "n", "t", "r", "o", "l">>),
               <<"M", "e", "n", "u">>, <<"A", "l", "t">>),
               <<"W", "i", "n">>, <<"M", "e", "t", "a">>),
               <<"O", "p", "t", "i", "o", "n">>, <<"A", "l", "t">>),
               <<"C", "m", "d">>, <<"M", "e", "t", "a">>),
               <<"C", "o", "m", "m", "a", "n", "d">>, <<"M", "e", "t", "a">>))

\* Shortcut::from_str
from_str(keys) ==
    LET tokens == split(trim(keys))
        ids == [i \in 1..Len(tokens) |-> normalize_key(tokens[i])]
    IN  IF \E i \in 1..Len(ids) : ~ids[i].ok
        THEN [ok |-> FALSE, shortcut |-> ShortcutDefault]
        ELSE [ok |-> TRUE, shortcut |-> ShortcutNew([i \in 1..Len(ids) |-> ids[i].key])]

\* let text = s.to_string();
Render(t) ==
    /\ pc[t] = "idle"
    /\ held(loc[t].shortcut) > 0
    /\ pc' = [pc EXCEPT ![t] = "rendered"]
    /\ loc' = [loc EXCEPT ![t].text = to_string(loc[t].shortcut)]
    /\ UNCHANGED <<gen_ID, tables, ret, pump, worker, now, ext, history>>

\* let parsed = Shortcut::from_str(&text);
Parse(t) ==
    /\ pc[t] = "rendered"
    /\ pc' = [pc EXCEPT ![t] = "parsed"]
    /\ loc' = [loc EXCEPT ![t].parsed = from_str(loc[t].text)]
    /\ UNCHANGED <<gen_ID, tables, ret, pump, worker, now, ext, history>>

\* text and parsed go out of scope
Forget(t) ==
    /\ pc[t] = "parsed"
    /\ pc' = [pc EXCEPT ![t] = "idle"]
    /\ loc' = [loc EXCEPT ![t].text = NoLoc.text, ![t].parsed = NoLoc.parsed]
    /\ UNCHANGED <<gen_ID, tables, ret, pump, worker, now, ext, history>>

NextParse ==
    \/ \E k \in ParseKeys : BuildNew("t1", k)
    \/ \E k \in ParseKeys : BuildSetKey("t1", k)
    \/ \E k \in ParseKeys : BuildRemoveKey("t1", k)
    \/ Render("t1")
    \/ Parse("t1")
    \/ Forget("t1")

SpecParse == Init /\ [][NextParse]_vars

\* C13: every Shortcut s equals itself, and parsing the string rendered by
\* s.to_string() succeeds and yields a shortcut equal to s, whatever catalog
\* keys s holds (also a key whose name contains an alias substring).
C13_RoundTrip ==
    pc["t1"] = "parsed" =>
        /\ ShortcutEq(loc["t1"].shortcut, loc["t1"].shortcut)
        /\ loc["t1"].parsed.ok
        /\ ShortcutEq(loc["t1"].parsed.shortcut, loc["t1"].shortcut)

(***************************************************************************)
(* SpecSubs: two caller threads add subscriptions and delete entries by id *)
(* on one Listener, in any interleaving of their steps.                    *)
(***************************************************************************)
NextSubs ==
    \/ \E t \in Threads, et \in {"None", "KeyboardEvent"} :
            gen_ID < MaxId /\ BeginAddEventListener(t, et)
    \/ \E t \in Threads, id \in 2..MaxId : BeginDelEventById(t, id)
    \/ \E t \in Threads : GenIdLoad(t)
    \/ \E t \in Threads : GenIdStore(t)
    \/ \E t \in Threads : InsertEvent(t)
    \/ \E t \in Threads : PostRecheck(t)
    \/ \E t \in Threads : DelStep(t)

SpecSubs == Init /\ [][NextSubs]_vars

\* C15: when del_event_by_id(id) returns on a thread whose previous call was
\* the add_event_listener that returned id, and every other thread has been
\* idle since that add began, the subscription table and the shortcut table
\* are exactly as the add found them.
C15_AddThenDelRestores ==
    [][\A t \in Threads :
          (/\ Returns(t)
           /\ loc[t].op = "del_event_by_id"
           /\ ret[t].op = "add_event_listener"
           /\ ret[t].id = loc[t].id
           /\ before.by = t
           /\ before.clean)
          => /\ event_map' = before.event_map
             /\ shortcut_map' = before.shortcut_map]_vars

(***************************************************************************)
(* SpecHooks: one caller thread subscribes, binds and deletes while the    *)
(* pump thread starts and serves the recheck messages; every hook          *)
(* installation succeeds.                                                  *)
(***************************************************************************)
NextHooks ==
    \/ gen_ID < MaxId /\ BeginAddGlobalShortcut("t1", KeyA)
    \/ \E et \in {"None", "KeyboardEvent", "MouseEvent"} :
            gen_ID < MaxId /\ BeginAddEventListener("t1", et)
    \/ \E id \in 2..MaxId : BeginDelEventById("t1", id)
    \/ BeginDelAllEvents("t1")
    \/ AddShortcutStep("t1")
    \/ InsertEvent("t1")
    \/ DelStep("t1")
    \/ Startup("t1")
    \/ PumpBoot
    \/ PumpRecheck(TRUE, TRUE)

SpecHooks == Init /\ [][NextHooks]_vars

\* this step is the pump thread evaluating a recheck
RecheckStep ==
    \/ loop_pc = "spawned" /\ loop_pc' = "started"
    \/ /\ loop_pc = "loop"
       /\ loop_msgs # <<>>
       /\ Head(loop_msgs) = "RECHECK"
       /\ loop_msgs' = Tail(loop_msgs)

\* C17: a recheck decides that the keyboard hook is needed (and, installation
\* succeeding, leaves it installed) iff the shortcut table is non-empty or a
\* subscription has selector KeyboardEvent or All.
C17_KeyboardHookNeeded ==
    [][RecheckStep =>
          (kb_hook' <=> \/ DOMAIN shortcut_map # {}
                        \/ \E i \in DOMAIN event_map :
                              event_map[i] \in {"KeyboardEvent", "All"})]_vars

\* C18: a recheck decides that the mouse hook is needed iff a subscription has
\* selector MouseEvent or All, whatever the shortcut table holds; after it the
\* mouse hook is installed and the loop is in the registry's mouse list exactly
\* in that case.
C18_MouseHookNeeded ==
    [][RecheckStep =>
          /\ mouse_hook' <=> \E i \in DOMAIN event_map :
                                event_map[i] \in {"MouseEvent", "All"}
          /\ mouse_hook' <=> LoopId \in Range(mouse_event_ids')]_vars

\* a MouseEvent subscription was deleted and the recheck has run: with a binding
\* left, the keyboard hook is installed and the mouse hook is not
C18_Witness ==
    /\ loop_pc = "loop"
    /\ loop_msgs = <<>>
    /\ pc["t1"] = "idle"
    /\ ret["t1"].op = "del_event_by_id"
    /\ before.event_map = <<>>
    /\ before.shortcut_map # <<>>
    /\ event_map = <<>>
    /\ shortcut_map # <<>>
    /\ kb_hook
    /\ ~mouse_hook
    /\ LoopId \notin Range(mouse_event_ids)

\* C19: handlers are invoked in the order in which the Worker received the
\* messages: of two handler runs, the earlier one is for the message posted
\* earlier.
C19_HandlersInReceiveOrder ==
    \A i, j \in DOMAIN calls : i < j => calls[i].seq < calls[j].seq

(***************************************************************************)
(* SpecS1: a subscription with selector All (and possibly a binding of     *)
(* Ctrl+A), the listener started, then UsA pressed and released at         *)
(* different times.                                                        *)
(***************************************************************************)
S1Script == << [key |-> "UsA", state |-> "Pressed"],
               [key |-> "UsA", state |-> "Released"] >>

\* a keyboard input while no keyboard hook is installed: the OS calls nothing
KeyInputUnhooked ==
    /\ loop_pc = "loop"
    /\ ~kb_hook
    /\ hook_seq' = hook_seq + 1
    /\ UNCHANGED <<gen_ID, tables, callers, pump, worker, now, ext, calls, last_update,
                   unchanged, removed, before>>

\* the listener is running with its subscription and every recheck is done
Settled ==
    /\ loop_pc = "loop"
    /\ loop_msgs = <<>>
    /\ pc["t1"] = "idle"
    /\ \E i \in DOMAIN event_map : event_map[i] = "All"

NextS1 ==
    \/ event_map = <<>> /\ BeginAddEventListener("t1", "None")
    \/ shortcut_map = <<>> /\ hook_seq = 0 /\ BeginAddGlobalShortcut("t1", CtrlA)
    \/ AddShortcutStep("t1")
    \/ InsertEvent("t1")
    \/ Startup("t1")
    \/ PumpBoot
    \/ PumpRecheck(TRUE, TRUE)
    \/ /\ Settled
       /\ hook_seq < Len(S1Script)
       /\ KeyboardHookProc(S1Script[hook_seq + 1].key, S1Script[hook_seq + 1].state,
                           last_time + 1)
    \/ /\ Settled
       /\ hook_seq < Len(S1Script)
       /\ KeyInputUnhooked
    \/ WorkerRecvKeyboard
    \/ \E e \in tasks : OnEvent(e)

SpecS1 == Init /\ [][NextS1]_vars

\* C16: with a subscription of selector All on a running listener, once UsA
\* was pressed and released and every message is handled, the subscription's
\* callback has run exactly twice: first with the press and the snapshot {UsA},
\* then with the release and the empty snapshot.
C16_AllSubscriptionDeliveries ==
    (hook_seq = Len(S1Script) /\ chan = <<>> /\ tasks = {}) =>
        /\ Len(calls) = 2
        /\ \A i \in 1..Len(calls) : calls[i].event_cbs = DOMAIN event_map
        /\ Len(calls) = 2 =>
            /\ calls[1].state = "Pressed" /\ KeysOf(calls[1].keyboard_state) = {"UsA"}
            /\ calls[2].state = "Released" /\ KeysOf(calls[2].keyboard_state) = {}

(***************************************************************************)
(* shutdown(), the Stop message and WM_QUIT.                               *)
(***************************************************************************)
Stop == [type |-> "Stop", key_id |-> "None", state |-> "None", seq |-> 0]

\* shutdown(): del_all_events()
ShutdownDelAll(t) ==
    /\ pc[t] = "idle"
    /\ lock("event_map")
    /\ lock("shortcut_map")
    /\ pc' = [pc EXCEPT ![t] = "shutdown_post_stop"]
    /\ loc' = [loc EXCEPT ![t] = [NoLoc EXCEPT !.op = "shutdown"]]
    /\ event_map' = <<>>
    /\ shortcut_map' = <<>>
    /\ loop_msgs' = post_msg_to_loop(loop_thread_id, loop_msgs)
    /\ before' = touched(t)
    /\ UNCHANGED <<gen_ID, listener_alive, ret, loop_pc, loop_thread_id, kb_hook, mouse_hook,
                   keyboard_event_ids, mouse_event_ids, last_time, worker, now, ext,
                   hook_seq, calls, last_update, unchanged, removed>>

\* shutdown(): worker.post_msg(Stop); the send fails once the receiver is gone
ShutdownPostStop(t) ==
    /\ pc[t] = "shutdown_post_stop"
    /\ pc' = [pc EXCEPT ![t] = "shutdown_stop"]
    /\ chan' = IF msg_sender /\ worker_pc = "running" THEN Append(chan, Stop) ELSE chan
    /\ UNCHANGED <<gen_ID, tables, loc, ret, pump, msg_sender, worker_pc, kbstate, tasks,
                   now, ext, history>>

\* EventLoop::stop: WM_QUIT is posted to the recorded thread, if there is one
stop(tid, msgs) ==
    IF tid = 0 THEN [loop_thread_id |-> tid, loop_msgs |-> msgs]
    ELSE [loop_thread_id |-> 0, loop_msgs |-> Append(msgs, "QUIT")]

\* shutdown(): event_loop.stop(), then the call returns (to the caller, or to
\* drop when the destructor called it)
ShutdownStop(t) ==
    /\ pc[t] = "shutdown_stop"
    /\ loop_thread_id' = stop(loop_thread_id, loop_msgs).loop_thread_id
    /\ loop_msgs' = stop(loop_thread_id, loop_msgs).loop_msgs
    /\ IF loc[t].op = "drop"
       THEN /\ pc' = [pc EXCEPT ![t] = "drop_fields"]
            /\ UNCHANGED <<loc, ret>>
       ELSE /\ ret' = [ret EXCEPT ![t] = [NoRet EXCEPT !.op = "shutdown"]]
            /\ pc' = [pc EXCEPT ![t] = "idle"]
            /\ loc' = [loc EXCEPT ![t] = NoLoc]
    /\ UNCHANGED <<gen_ID, tables, loop_pc, kb_hook, mouse_hook, keyboard_event_ids,
                   mouse_event_ids, last_time, worker, now, ext, history>>

\* a worker loop that receives Stop and goes on receiving
WorkerRecvStop_continues ==
    /\ worker_pc = "running"
    /\ chan # <<>>
    /\ Head(chan).type = "Stop"
    /\ chan' = Tail(chan)
    /\ UNCHANGED <<gen_ID, tables, callers, pump, msg_sender, worker_pc, kbstate, tasks, now, ext,
                   history>>

\* worker_loop: rx.recv() of Stop; the loop breaks and the receiver is dropped
WorkerRecvStop ==
    /\ worker_pc = "running"
    /\ chan # <<>>
    /\ Head(chan).type = "Stop"
    /\ worker_pc' = "exited"
    /\ chan' = <<>>
    /\ UNCHANGED <<gen_ID, tables, callers, pump, msg_sender, kbstate, tasks, now, ext, history>>

\* run: GetMessageW returned 0 for WM_QUIT; the thread ends
PumpQuit ==
    /\ loop_pc = "loop"
    /\ loop_msgs # <<>>
    /\ Head(loop_msgs) = "QUIT"
    /\ loop_pc' = "exited"
    /\ loop_msgs' = <<>>
    /\ UNCHANGED <<gen_ID, tables, callers, loop_thread_id, kb_hook, mouse_hook,
                   keyboard_event_ids, mouse_event_ids, last_time, worker, now, ext, history>>

(***************************************************************************)
(* SpecShutdown: one caller thread subscribes, binds, starts the listener  *)
(* and calls shutdown any number of times, at any moment.                  *)
(***************************************************************************)
NextShutdown ==
    \/ gen_ID < MaxId /\ BeginAddGlobalShortcut("t1", KeyA)
    \/ gen_ID < MaxId /\ BeginAddEventListener("t1", "None")
    \/ AddShortcutStep("t1")
    \/ InsertEvent("t1")
    \/ Startup("t1")
    \/ PumpBoot
    \/ PumpRecheck(TRUE, TRUE)
    \/ PumpQuit
    \/ WorkerRecvStop
    \/ Len(chan) < MaxShutdowns /\ ShutdownDelAll("t1")
    \/ ShutdownPostStop("t1")
    \/ ShutdownStop("t1")

SpecShutdown == Init /\ [][NextShutdown]_vars

\* the messages the worker loop will still receive: those up to the first Stop
RECURSIVE UpToStop(_)
UpToStop(ch) ==
    IF ch = <<>> THEN <<>>
    ELSE IF Head(ch).type = "Stop" THEN <<Stop>>
    ELSE <<Head(ch)>> \o UpToStop(Tail(ch))

\* the HookLoop is stopped: no pump thread, or one that has WM_QUIT to come
HookLoopStopped ==
    \/ loop_pc \in {"none", "exited"}
    \/ loop_pc = "loop" /\ "QUIT" \in Range(loop_msgs)

\* C20: shutdown() never blocks; when it returns both tables are empty, Stop is
\* posted to a running Worker and the HookLoop is stopped; and no step of a
\* shutdown() called right after a shutdown() changes anything: not the tables,
\* not the HookLoop's thread id and messages, not what the Worker will receive.
C20_ShutdownIdempotent ==
    [][/\ pc["t1"] = "shutdown_post_stop" => ENABLED ShutdownPostStop("t1")
       /\ pc["t1"] = "shutdown_stop" => ENABLED ShutdownStop("t1")
       /\ (pc["t1"] = "shutdown_stop" /\ pc'["t1"] = "idle") =>
             /\ event_map' = <<>> /\ shortcut_map' = <<>>
             /\ worker_pc' = "running" => Stop \in Range(chan')
             /\ HookLoopStopped'
       /\ (ret["t1"].op = "shutdown"
           /\ pc'["t1"] # pc["t1"]
           /\ (pc'["t1"] \in {"shutdown_post_stop", "shutdown_stop"}
               \/ pc["t1"] = "shutdown_stop")) =>
             /\ tables' = tables
             /\ loop_thread_id' = loop_thread_id
             /\ loop_msgs' = loop_msgs
             /\ UpToStop(chan') = UpToStop(chan)]_vars

\* C21: the ids handed out by gen_id are strictly increasing and pairwise
\* distinct, also when add calls of several caller threads interleave: the id
\* a call draws is greater than the counter it found and is not the id of a
\* table entry or of another call in progress, and no insert replaces an entry.
C21_IdsIncreaseAndDistinct ==
    [][\A t \in Threads :
          /\ (pc[t] = "gen_id_store" /\ pc'[t] = "insert") =>
                /\ loc'[t].id > gen_ID
                /\ loc'[t].id \notin (DOMAIN event_map \cup DOMAIN shortcut_map)
                /\ \A u \in Threads \ {t} :
                      pc[u] \in {"insert", "post_recheck"} => loc[u].id # loc'[t].id
          /\ (pc[t] = "insert" /\ pc'[t] = "post_recheck") =>
                loc[t].id \notin (DOMAIN event_map \cup DOMAIN shortcut_map)]_vars

(***************************************************************************)
(* SpecStartup: thread t1 subscribes and calls startup with any argument,  *)
(* thread t2 calls shutdown at any moment.                                 *)
(***************************************************************************)
NextStartup ==
    \/ \E et \in {"None", "MouseEvent"} :
            gen_ID < MaxId /\ BeginAddEventListener("t1", et)
    \/ GenIdLoad("t1")
    \/ GenIdStore("t1")
    \/ InsertEvent("t1")
    \/ PostRecheck("t1")
    \/ \E wt \in WorkThreadArgs : StartupWith("t1", wt)
    \/ StartupReturn("t1")
    \/ PumpBoot
    \/ PumpRecheck(TRUE, TRUE)
    \/ PumpQuit
    \/ WorkerRecvStop
    \/ Len(chan) < MaxShutdowns /\ ShutdownDelAll("t2")
    \/ ShutdownPostStop("t2")
    \/ ShutdownStop("t2")

SpecStartup == Init /\ [][NextStartup]_vars

\* C22: startup(None) behaves as startup(Some(true)): the worker loop runs on
\* its own thread and the call returns the join handle at once, the loop still
\* running; startup(Some(false)) runs the worker loop on the caller's thread
\* and returns None only after that loop has ended.
C22_StartupThreadedByDefault ==
    [][\A t \in Threads :
          /\ \A wt \in WorkThreadArgs :
                StartupWith(t, wt) =>
                    IF wt \in {"None", "Some(true)"}
                    THEN /\ pc'[t] = "idle"
                         /\ ret'[t].op = "startup" /\ ret'[t].handle
                         /\ worker_pc' = "running"
                    ELSE pc'[t] = "worker_loop"
          /\ (pc[t] = "worker_loop" /\ pc'[t] # "worker_loop") =>
                /\ worker_pc = "exited"
                /\ ret'[t].op = "startup" /\ ~ret'[t].handle]_vars

(***************************************************************************)
(* SpecDispatch: subscriptions of every selector and a binding of Ctrl are *)
(* made, the listener is started, and keyboard and mouse inputs are        *)
(* dispatched one after the other.                                         *)
(***************************************************************************)
Selectors == {"None", "KeyboardEvent", "MouseEvent"}

NextDispatch ==
    \/ \E et \in Selectors :
            loop_pc = "none" /\ gen_ID <= MaxTableId /\ BeginAddEventListener("t1", et)
    \/ /\ loop_pc = "none"
       /\ gen_ID <= MaxTableId
       /\ shortcut_map = <<>>
       /\ BeginAddGlobalShortcut("t1", CtrlOnly)
    \/ AddShortcutStep("t1")
    \/ InsertEvent("t1")
    \/ Startup("t1")
    \/ PumpBoot
    \/ \E k \in SpecKeys, st \in KeyStates :
            /\ hook_seq < MaxHookEvents
            /\ chan = <<>> /\ tasks = {}
            /\ KeyboardHookProc(k, st, last_time + 1)
    \/ /\ hook_seq < MaxHookEvents
       /\ chan = <<>> /\ tasks = {}
       /\ MouseHookProc
    \/ WorkerRecvKeyboard
    \/ WorkerRecvMouse
    \/ \E e \in tasks : OnEvent(e)

SpecDispatch == Init /\ [][NextDispatch]_vars

\* this step is a run of on_event; Dispatched is the record of that run
DispatchStep == Len(calls') = Len(calls) + 1
Dispatched == calls'[Len(calls')]

\* C23: on the dispatch of an event, the callbacks invoked are those of exactly
\* the subscriptions whose selector is All or has the variant of the event
\* (KeyboardEvent / MouseEvent), each once; a subscription added with no
\* selector is entered with selector All.
C23_SubscriptionFiresOnVariant ==
    [][/\ DispatchStep =>
            /\ Dispatched.type \in {"KeyboardEvent", "MouseEvent"}
            /\ \A i \in DOMAIN event_map :
                  i \in Dispatched.event_cbs
                      <=> (event_map[i] = "All" \/ event_map[i] = Dispatched.type)
            /\ Dispatched.event_cbs \subseteq DOMAIN event_map
       /\ \A t \in Threads :
            (pc[t] = "insert" /\ loc[t].op = "add_event_listener" /\ pc'[t] # "insert") =>
                /\ loc[t].id \in DOMAIN event_map'
                /\ event_map'[loc[t].id] \in {"All", "KeyboardEvent", "MouseEvent"}
       /\ \A t \in Threads :
            (pc[t] = "idle" /\ BeginAddEventListener(t, "None")) => loc'[t].et = "All"]_vars

\* one subscription of each selector is in the table (the All one added with no
\* selector); a mouse event went to the All and the MouseEvent subscription and
\* a keyboard event to the All and the KeyboardEvent subscription
C23_Witness ==
    \E a, k, mo \in DOMAIN event_map :
        /\ event_map[a] = "All" /\ event_map[k] = "KeyboardEvent" /\ event_map[mo] = "MouseEvent"
        /\ \E c \in Calls : c.type = "MouseEvent" /\ c.event_cbs = {a, mo}
        /\ \E c \in Calls : c.type = "KeyboardEvent" /\ c.event_cbs = {a, k}

\* C24: a shortcut callback is invoked only by a keyboard event whose state is
\* Pressed: never by a key release, also when the snapshot after the release
\* matches a bound shortcut, and never by a mouse event.
C24_ShortcutOnlyOnPressed ==
    \A c \in Calls :
        (c.type # "KeyboardEvent" \/ c.state # "Pressed") =>
            (c.shortcut_cb = 0 /\ ~c.user_cb)

\* "Ctrl" is bound: Ctrl-down invoked its callback, the release of A with Ctrl
\* still held (a snapshot that matches "Ctrl") invoked none, and neither did a
\* mouse event
C24_Witness ==
    /\ \E i \in DOMAIN shortcut_map : shortcut_map[i].shortcut = CtrlOnly
    /\ \E c \in Calls :
        /\ c.key_id = "ControlLeft" /\ c.state = "Pressed"
        /\ c.shortcut_cb # 0 /\ c.user_cb
    /\ \E c \in Calls :
        /\ c.key_id = "UsA" /\ c.state = "Released"
        /\ is_match(CtrlOnly, c.keyboard_state)
        /\ c.shortcut_cb = 0
    /\ \E c \in Calls : c.type = "MouseEvent" /\ c.shortcut_cb = 0

(***************************************************************************)
(* SpecBoth: "Ctrl+A" and "ControlLeft+A" are bound (in either order), the *)
(* listener is started, and the hook is fed ControlLeft-down, A-down,      *)
(* A-up, ControlLeft-up.                                                   *)
(***************************************************************************)
NextBoth ==
    \/ \E sc \in {CtrlA, CtrlLeftA} :
            /\ loop_pc = "none"
            /\ \A i \in DOMAIN shortcut_map : shortcut_map[i].shortcut # sc
            /\ BeginAddGlobalShortcut("t1", sc)
    \/ AddShortcutStep("t1")
    \/ shortcut_map # <<>> /\ Startup("t1")
    \/ PumpBoot
    \/ \E time \in HookTimes :
            /\ hook_seq < Len(S2Script)
            /\ KeyboardHookProc(S2Script[hook_seq + 1].key, S2Script[hook_seq + 1].state, time)
    \/ WorkerRecvKeyboard
    \/ \E e \in tasks : OnEvent(e)

SpecBoth == Init /\ [][NextBoth]_vars

\* C25: on the dispatch of a Pressed keyboard event, every binding whose
\* shortcut matches the event's snapshot and that the modifier-transition guard
\* does not skip has its callback invoked: with "Ctrl+A" and "ControlLeft+A"
\* both bound, ControlLeft-down then A-down invokes both callbacks.
C25_EveryMatchingBindingFires ==
    [][DispatchStep =>
          \A i \in DOMAIN shortcut_map :
              (/\ Dispatched.type = "KeyboardEvent"
               /\ Dispatched.state = "Pressed"
               /\ is_match(shortcut_map[i].shortcut, Dispatched.keyboard_state)
               /\ ~(/\ has_modifier(shortcut_map[i].shortcut)
                    /\ has_normal_key(shortcut_map[i].shortcut)
                    /\ is_modifier(Dispatched.key_id)))
              => Dispatched.shortcut_cb = i]_vars

(***************************************************************************)
(* The destructor of Listener.                                             *)
(***************************************************************************)
\* the last Arc<Listener> is dropped on thread t: the strong count is zero from
\* now on, and drop calls shutdown(), which begins with del_all_events()
DropListener(t) ==
    /\ pc[t] = "idle"
    /\ lock("event_map")
    /\ lock("shortcut_map")
    /\ listener_alive
    /\ listener_alive' = FALSE
    /\ pc' = [pc EXCEPT ![t] = "shutdown_post_stop"]
    /\ loc' = [loc EXCEPT ![t] = [NoLoc EXCEPT !.op = "drop"]]
    /\ event_map' = <<>>
    /\ shortcut_map' = <<>>
    /\ loop_msgs' = post_msg_to_loop(loop_thread_id, loop_msgs)
    /\ before' = touched(t)
    /\ UNCHANGED <<gen_ID, ret, loop_pc, loop_thread_id, kb_hook, mouse_hook,
                   keyboard_event_ids, mouse_event_ids, last_time, worker, now, ext,
                   hook_seq, calls, last_update, unchanged, removed>>

\* after drop's body the fields are dropped: the Listener's Arc<Worker> is the
\* only one, so the Worker and the Sender it holds go
DropFields(t) ==
    /\ pc[t] = "drop_fields"
    /\ msg_sender' = FALSE
    /\ pc' = [pc EXCEPT ![t] = "idle"]
    /\ loc' = [loc EXCEPT ![t] = NoLoc]
    /\ ret' = [ret EXCEPT ![t] = [NoRet EXCEPT !.op = "drop"]]
    /\ UNCHANGED <<gen_ID, tables, pump, worker_pc, chan, kbstate, tasks, now, ext, history>>

\* worker_loop: rx.recv() returns Err, the channel is empty and the Sender is
\* dropped; the loop ends
WorkerRecvDisconnected ==
    /\ worker_pc = "running"
    /\ chan = <<>>
    /\ ~msg_sender
    /\ worker_pc' = "exited"
    /\ UNCHANGED <<gen_ID, tables, callers, pump, msg_sender, chan, kbstate, tasks, now, ext,
                   history>>

(***************************************************************************)
(* SpecTeardown: one caller thread subscribes, binds, starts the listener, *)
(* calls shutdown and drops the Listener, each at any moment.  A thread    *)
(* that can take a step eventually takes one.                              *)
(***************************************************************************)
\* the caller registers nothing once it has called shutdown() or dropped the
\* Listener
Registering == listener_alive /\ gen_ID < MaxId /\ ret["t1"].op # "shutdown"

NextTeardown ==
    \/ Registering /\ BeginAddGlobalShortcut("t1", KeyA)
    \/ Registering /\ BeginAddEventListener("t1", "MouseEvent")
    \/ AddShortcutStep("t1")
    \/ InsertEvent("t1")
    \/ listener_alive /\ Startup("t1")
    \/ PumpBoot
    \/ PumpRecheck(TRUE, TRUE)
    \/ PumpQuit
    \/ WorkerRecvStop
    \/ listener_alive /\ Len(chan) < MaxShutdowns /\ ShutdownDelAll("t1")
    \/ ShutdownPostStop("t1")
    \/ ShutdownStop("t1")
    \/ DropListener("t1")
    \/ DropFields("t1")

\* the steps of the pump thread, of the worker loop, and of a call in progress
PumpStep == PumpBoot \/ PumpRecheck(TRUE, TRUE) \/ PumpQuit
WorkerStep == WorkerRecvStop
CallerStep ==
    \/ AddShortcutStep("t1")
    \/ InsertEvent("t1")
    \/ ShutdownPostStop("t1")
    \/ ShutdownStop("t1")
    \/ DropFields("t1")

SpecTeardown ==
    /\ Init /\ [][NextTeardown]_vars
    /\ WF_vars(PumpStep) /\ WF_vars(WorkerStep) /\ WF_vars(CallerStep)

\* shutdown() was called (by the caller or by the destructor) on a started
\* Listener and has returned
ShutdownReturned ==
    /\ pc["t1"] = "idle"
    /\ ret["t1"].op \in {"shutdown", "drop"}
    /\ loop_pc # "none"

\* the pump thread has left its message loop with no hook installed and the
\* loop's id in neither registry list
PumpStoppedClean ==
    /\ loop_pc = "exited"
    /\ ~kb_hook /\ ~mouse_hook
    /\ LoopId \notin (Range(keyboard_event_ids) \cup Range(mouse_event_ids))

\* C26: after shutdown() on a started Listener has returned, the pump thread
\* eventually leaves its message loop, with no keyboard or mouse hook installed
\* and its id in neither registry list; also when shutdown() ran right after
\* startup(), before the pump thread recorded its thread id, and when the
\* destructor called it.
C26_ShutdownStopsPump == ShutdownReturned ~> PumpStoppedClean

(***************************************************************************)
(* SpecRecheck: one caller thread changes the tables (mouse subscriptions  *)
(* and a shortcut, for which recheck_hook's flags are the needed ones)     *)
(* before and after startup(); the listener is never shut down.  A thread  *)
(* that can take a step eventually takes one.                              *)
(***************************************************************************)
NextRecheck ==
    \/ gen_ID < MaxId /\ BeginAddGlobalShortcut("t1", KeyA)
    \/ gen_ID < MaxId /\ BeginAddEventListener("t1", "MouseEvent")
    \/ DOMAIN event_map \cup DOMAIN shortcut_map # {} /\ BeginDelAllEvents("t1")
    \/ AddShortcutStep("t1")
    \/ InsertEvent("t1")
    \/ DelStep("t1")
    \/ Startup("t1")
    \/ PumpBoot
    \/ PumpRecheck(TRUE, TRUE)

RecheckCallerStep == AddShortcutStep("t1") \/ InsertEvent("t1") \/ DelStep("t1")

SpecRecheck ==
    /\ Init /\ [][NextRecheck]_vars
    /\ WF_vars(PumpBoot \/ PumpRecheck(TRUE, TRUE)) /\ WF_vars(RecheckCallerStep)

\* C27: once the tables of a started Listener stop changing, the pump thread
\* eventually evaluates a recheck that reflects the final tables: from some
\* moment on the installed hook set is exactly keyboard-if-needed plus
\* mouse-if-needed, whether the changes were made before startup() or at any
\* moment after it, the pump thread's startup included.
C27_RecheckReflectsFinalTables ==
    <>[](loop_pc # "none" =>
            /\ kb_hook <=> \/ DOMAIN shortcut_map # {}
                           \/ \E i \in DOMAIN event_map :
                                 event_map[i] \in {"KeyboardEvent", "All"}
            /\ mouse_hook <=> \E i \in DOMAIN event_map :
                                 event_map[i] \in {"MouseEvent", "All"})

(***************************************************************************)
(* SpecWorker: the Worker between run and the end of its loop.  Hook       *)
(* invocations post messages at any moment, shutdown() posts Stop, or the  *)
(* owner drops the Worker without a Stop.  The worker loop, blocked in     *)
(* recv only while the channel is empty, eventually takes its next step.   *)
(***************************************************************************)
\* the last Arc<Worker> is dropped by its owner: the Sender kept in msg_sender
\* is dropped with it, and Drop for Worker sends nothing
WorkerDropped ==
    /\ worker_pc = "running"
    /\ msg_sender
    /\ msg_sender' = FALSE
    /\ UNCHANGED <<gen_ID, tables, callers, pump, worker_pc, chan, kbstate, tasks, now, ext,
                   history>>

StopQueued == \E i \in DOMAIN chan : chan[i].type = "Stop"

WorkerLoopStep ==
    \/ WorkerRecvKeyboard
    \/ WorkerRecvMouse
    \/ WorkerRecvStop
    \/ WorkerRecvDisconnected

NextWorker ==
    \/ /\ loop_pc = "none" /\ gen_ID < MaxId /\ event_map = <<>>
       /\ BeginAddEventListener("t1", "MouseEvent")
    \/ /\ loop_pc = "none" /\ gen_ID < MaxId /\ shortcut_map = <<>>
       /\ BeginAddGlobalShortcut("t1", CtrlOnly)
    \/ AddShortcutStep("t1")
    \/ InsertEvent("t1")
    \/ Startup("t1")
    \/ PumpBoot
    \/ PumpRecheck(TRUE, TRUE)
    \/ PumpQuit
    \/ \E st \in KeyStates :
            hook_seq < MaxWorkerEvents /\ KeyboardHookProc("ControlLeft", st, last_time + 1)
    \/ hook_seq < MaxWorkerEvents /\ MouseHookProc
    \/ WorkerLoopStep
    \/ \E e \in tasks : OnEvent(e)
    \/ worker_pc = "running" /\ ~StopQueued /\ ShutdownDelAll("t1")
    \/ ShutdownPostStop("t1")
    \/ ShutdownStop("t1")
    \/ WorkerDropped

SpecWorker == Init /\ [][NextWorker]_vars /\ WF_vars(WorkerLoopStep)

\* the loop takes a message off the channel
Received == worker_pc = "running" /\ chan # <<>> /\ Len(chan') < Len(chan)

\* C28: the Worker consumer loop terminates.  After a Stop message is posted to
\* a running Worker, or all senders are dropped, the loop eventually exits.  Up
\* to then it takes the messages off the channel one at a time from the front
\* (FIFO), handing each mouse message and each translated key message to the
\* handler, and it receives Stop only when Stop is at the front; once it has
\* exited it stays exited and hands nothing more to the handler.
C28_WorkerLoopTerminates ==
    /\ [][/\ Received =>
               IF Head(chan).type = "Stop"
               THEN worker_pc' = "exited" /\ tasks' = tasks
               ELSE /\ chan' = Tail(chan)
                    /\ worker_pc' = "running"
                    /\ Head(chan).type = "MouseEvent" =>
                           \E e \in tasks' : e.seq = Head(chan).seq
                    /\ \A e \in tasks' \ tasks : e.seq = Head(chan).seq
          /\ ~Received => tasks' \subseteq tasks
          /\ worker_pc = "exited" =>
               worker_pc' = "exited" /\ tasks' \subseteq tasks /\ kbstate' = kbstate]_vars
    /\ (worker_pc = "running" /\ (StopQueued \/ ~msg_sender)) ~> (worker_pc = "exited")

\* the loop has exited on Stop after handing the first hook event to the
\* handler, and a later hook event was never handed over
C28_Witness ==
    /\ worker_pc = "exited"
    /\ msg_sender
    /\ hook_seq >= 2
    /\ \E e \in tasks : e.seq = 1
    /\ \A e \in tasks : e.seq = 1
    /\ \A i \in DOMAIN calls : calls[i].seq = 1

(***************************************************************************)
(* SpecPost: a live Listener is started and shut down by one caller, which *)
(* subscribes to mouse events at any moment; the mouse hook is invoked at  *)
(* any moment at which it is installed, also after shutdown() returned.    *)
(***************************************************************************)
NextPost ==
    \/ gen_ID < MaxId /\ BeginAddEventListener("t1", "MouseEvent")
    \/ GenIdLoad("t1")
    \/ GenIdStore("t1")
    \/ InsertEvent("t1")
    \/ PostRecheck("t1")
    \/ Startup("t1")
    \/ PumpBoot
    \/ PumpRecheck(TRUE, TRUE)
    \/ PumpQuit
    \/ hook_seq < MaxWorkerEvents /\ MouseHookProc
    \/ WorkerRecvMouse
    \/ WorkerRecvStop
    \/ \E e \in tasks : OnEvent(e)
    \/ ~StopQueued /\ ShutdownDelAll("t1")
    \/ ShutdownPostStop("t1")
    \/ ShutdownStop("t1")

SpecPost == Init /\ [][NextPost]_vars

\* shutdown() has posted Stop to the running Worker: Stop is in the channel, or
\* the loop has received it
StopPosted == StopQueued \/ worker_pc = "exited"

\* C29: once shutdown() has posted Stop, post_msg has no observable effect.  A
\* hook invocation that posts then leaves unchanged the messages the loop will
\* still receive, the events handed to the handler and the callbacks invoked,
\* and the pump thread goes on (the post neither fails nor blocks: the hook
\* procedure can run whenever its hook is installed); and no hook event that
\* happens after Stop was posted is ever dispatched to a callback.
C29_PostAfterShutdownNoEffect ==
    /\ [](StopPosted /\ loop_pc = "loop" /\ mouse_hook => ENABLED MouseHookProc)
    /\ [][StopPosted /\ hook_seq' = hook_seq + 1 =>
              /\ UpToStop(chan') = UpToStop(chan)
              /\ tasks' = tasks /\ calls' = calls
              /\ loop_pc' = loop_pc /\ worker_pc' = worker_pc]_vars
    /\ \A s \in 1..(MaxWorkerEvents + 1) :
          [](StopPosted /\ hook_seq < s =>
                [](/\ \A i \in DOMAIN calls : calls[i].seq # s
                   /\ \A e \in tasks : e.seq # s))

\* shutdown() has returned (its Stop is in the channel and the caller is in no
\* shutdown step), the caller has subscribed again, and the hook has posted a
\* message behind the Stop
C29_Witness ==
    /\ pc["t1"] \notin {"shutdown_post_stop", "shutdown_stop"}
    /\ event_map # <<>>
    /\ \E i, j \in DOMAIN chan :
          i < j /\ chan[i].type = "Stop" /\ chan[j].type = "MouseEvent"

(***************************************************************************)
(* SpecDrop: a started Listener with a mouse subscription is dropped at    *)
(* any moment while the mouse hook is being invoked and the worker loop    *)
(* dispatches.                                                             *)
(***************************************************************************)
NextDrop ==
    \/ /\ listener_alive /\ loop_pc = "none" /\ gen_ID < MaxId
       /\ BeginAddEventListener("t1", "MouseEvent")
    \/ GenIdLoad("t1")
    \/ GenIdStore("t1")
    \/ InsertEvent("t1")
    \/ PostRecheck("t1")
    \/ listener_alive /\ Startup("t1")
    \/ PumpBoot
    \/ PumpRecheck(TRUE, TRUE)
    \/ PumpQuit
    \/ hook_seq < MaxWorkerEvents /\ MouseHookProc
    \/ WorkerRecvMouse
    \/ WorkerRecvStop
    \/ \E e \in tasks : OnEvent(e)
    \/ \E e \in tasks : OnEventDropped(e)
    \/ DropListener("t1")
    \/ ShutdownPostStop("t1")
    \/ ShutdownStop("t1")
    \/ DropFields("t1")

SpecDrop == Init /\ [][NextDrop]_vars

\* C30: once the Listener is dropped, an event for which the hook procedure
\* would post a message, or which the worker loop would dispatch, is silently
\* dropped: no step invokes a callback, no thread panics, and a hook
\* invocation posts nothing and returns through CallNextHookEx, the pump thread
\* staying in its message loop.
C30_UpgradeFailureDropsEvent ==
    [][~listener_alive =>
          /\ calls' = calls
          /\ loop_pc' # "panicked"
          /\ hook_seq' # hook_seq => chan' = chan /\ loop_pc' = loop_pc
          /\ \A e \in tasks \ tasks' : worker_pc' = worker_pc]_vars

(***************************************************************************)
(* on_event step by step: the dispatching thread calls the subscription    *)
(* callbacks of its snapshot one after the other, then the shortcut        *)
(* callback.  A callback may call the Listener API on that thread ("t2").  *)
(***************************************************************************)
\* the MutexGuards alive while on_event calls a subscription callback:
\* filter_events' `binding` is dropped when it returns the collected Vec
guards_in_event_cb_iter == {"event_map"}

guards_in_event_cb == {}

\* the MutexGuards alive while the user's shortcut callback runs:
\* filter_shortcut's `binding` is dropped at its return, and the gate closure's
\* `mtrigger_info` at the end of the need_trigger block
guards_in_shortcut_cb == {}

\* on_event: let events = self.filter_events(&event_type)
OnEventBegin(event) ==
    /\ frame.pc = "none"
    /\ event \in tasks
    /\ listener_alive
    /\ lock("event_map")
    /\ tasks' = tasks \ {event}
    /\ frame' = [NoFrame EXCEPT !.pc = "event_cbs", !.event = event,
                                !.cbs = filter_events(event_map, event),
                                !.event_cbs = filter_events(event_map, event),
                                !.held = guards_in_event_cb]
    /\ UNCHANGED <<gen_ID, tables, callers, pump, msg_sender, worker_pc, chan, kbstate,
                   now, hook_call, other_thread, history>>

\* on_event: cb(event_type.clone()) is entered for one entry of the snapshot
CallEventCb(id) ==
    /\ frame.pc = "event_cbs"
    /\ id \in frame.cbs
    /\ frame' = [frame EXCEPT !.pc = "in_event_cb", !.cbs = @ \ {id}]
    /\ UNCHANGED <<gen_ID, tables, callers, pump, worker, now, hook_call, other_thread, history>>

\* a callback is running on the dispatching thread
InCallback == frame.pc \in {"in_event_cb", "in_shortcut_cb"}

\* the subscription callback returns
ReturnEventCb ==
    /\ frame.pc = "in_event_cb"
    /\ pc["t2"] = "idle"
    /\ frame' = [frame EXCEPT !.pc = "event_cbs"]
    /\ UNCHANGED <<gen_ID, tables, callers, pump, worker, now, hook_call, other_thread, history>>

\* on_event: if let Some(cb) = self.filter_shortcut(&event_type) { cb() }, up to
\* the call of the user's callback (the gate closure has run its locked block)
OnEventShortcut ==
    /\ frame.pc = "event_cbs"
    /\ frame.cbs = {}
    /\ lock("shortcut_map")
    /\ \E hit \in filter_shortcut(shortcut_map, frame.event) :
         LET event == frame.event
             b == shortcut_map[hit]
             g == gate(b.info, b.trigger, b.internal, now)
             gated == hit # 0 /\ b.trigger > 0
             user == IF hit = 0 THEN FALSE
                     ELSE IF gated THEN g.need_trigger ELSE TRUE
         IN  /\ shortcut_map' = IF gated
                                THEN [shortcut_map EXCEPT ![hit].info = g.info]
                                ELSE shortcut_map
             /\ calls' = Append(calls,
                    [seq |-> event.seq, type |-> event.type, key_id |-> event.key_id,
                     state |-> event.state, keyboard_state |-> event.keyboard_state,
                     event_cbs |-> frame.event_cbs,
                     shortcut_cb |-> hit,
                     shortcut |-> IF hit = 0 THEN ShortcutDefault ELSE b.shortcut,
                     gate_before |-> IF gated THEN b.info ELSE TriggerInfoNew(0),
                     gate_after |-> IF gated THEN g.info ELSE TriggerInfoNew(0),
                     user_cb |-> user, time |-> now])
             /\ frame' = IF user
                         THEN [frame EXCEPT !.pc = "in_shortcut_cb", !.hit = hit,
                                            !.held = guards_in_shortcut_cb]
                         ELSE NoFrame
    /\ UNCHANGED <<gen_ID, event_map, listener_alive, callers, pump, worker, now, hook_call, other_thread,
                   hook_seq, last_update, unchanged, removed, before>>

\* the shortcut callback returns, and on_event with it
ReturnShortcutCb ==
    /\ frame.pc = "in_shortcut_cb"
    /\ pc["t2"] = "idle"
    /\ frame' = NoFrame
    /\ UNCHANGED <<gen_ID, tables, callers, pump, worker, now, hook_call, other_thread, history>>

\* the steps of on_event itself
OnEventStep ==
    \/ \E e \in tasks : OnEventBegin(e)
    \/ \E id \in frame.cbs : CallEventCb(id)
    \/ ReturnEventCb
    \/ OnEventShortcut
    \/ ReturnShortcutCb

\* a callback calls the Listener API on the dispatching thread
Reenter ==
    /\ InCallback
    /\ \/ gen_ID < MaxId /\ BeginAddEventListener("t2", "MouseEvent")
       \/ gen_ID < MaxId /\ BeginAddGlobalShortcut("t2", KeyA)
       \/ \E id \in DOMAIN event_map \cup DOMAIN shortcut_map : BeginDelEventById("t2", id)
       \/ DOMAIN event_map \cup DOMAIN shortcut_map # {} /\ BeginDelAllEvents("t2")
       \/ ~StopQueued /\ worker_pc = "running" /\ ShutdownDelAll("t2")

\* the statements of the call a callback has made
ReenterStep ==
    \/ AddShortcutStep("t2")
    \/ InsertEvent("t2")
    \/ DelStep("t2")
    \/ ShutdownPostStop("t2")
    \/ ShutdownStop("t2")

(***************************************************************************)
(* SpecReenter: a Listener with a subscription to every event and the      *)
(* shortcut "Ctrl" is started; mouse and Ctrl events are dispatched on the *)
(* worker loop's thread, and the callbacks call the Listener API.  A call  *)
(* in progress eventually takes its next statement.                        *)
(***************************************************************************)
NextReenter ==
    \/ /\ loop_pc = "none" /\ gen_ID < MaxId /\ event_map = <<>>
       /\ BeginAddEventListener("t1", "All")
    \/ /\ loop_pc = "none" /\ gen_ID < MaxId /\ shortcut_map = <<>>
       /\ BeginAddGlobalShortcut("t1", CtrlOnly)
    \/ AddShortcutStep("t1")
    \/ InsertEvent("t1")
    \/ Startup("t1")
    \/ PumpBoot
    \/ PumpRecheck(TRUE, TRUE)
    \/ PumpQuit
    \/ /\ hook_seq < MaxWorkerEvents /\ chan = <<>>
       /\ KeyboardHookProc("ControlLeft", "Pressed", last_time + 1)
    \/ hook_seq < MaxWorkerEvents /\ chan = <<>> /\ MouseHookProc
    \/ frame.pc = "none" /\ WorkerRecvKeyboard
    \/ frame.pc = "none" /\ WorkerRecvMouse
    \/ frame.pc = "none" /\ WorkerRecvStop
    \/ OnEventStep
    \/ Reenter
    \/ ReenterStep

SpecReenter == Init /\ [][NextReenter]_vars /\ WF_vars(ReenterStep)

\* C31: no table mutex and no trigger-gate mutex is held while a user
\* callback runs, and a call of the Listener API that a callback makes on the
\* dispatching thread (add_event_listener, add_global_shortcut,
\* del_event_by_id, del_all_events, shutdown) completes.
C31_CallbackMayReenter ==
    /\ [](InCallback => frame.held = {})
    /\ (InCallback /\ pc["t2"] # "idle") ~> (pc["t2"] = "idle")

\* inside the first subscription callback, a call of add_event_listener made by
\* that callback has returned with its entry in the table
C31_Witness ==
    /\ frame.pc = "in_event_cb"
    /\ calls = <<>>
    /\ pc["t2"] = "idle"
    /\ ret["t2"].op = "add_event_listener" /\ ret["t2"].ok
    /\ ret["t2"].id \in DOMAIN event_map

(***************************************************************************)
(* SpecChain: the hook procedures on every path.  A Listener with a mouse  *)
(* subscription and the shortcut "Ctrl" is started; the hooks are invoked  *)
(* with action and non-action codes and with repeated timestamps, and the  *)
(* Listener is dropped at any moment.                                      *)
(***************************************************************************)
\* keyboard_hook_proc / mouse_hook_proc with ncode != HC_ACTION
HookNoAction ==
    /\ loop_pc = "loop"
    /\ kb_hook \/ mouse_hook
    /\ hook_seq' = hook_seq + 1
    /\ hook_call' = chain_next("not_action")
    /\ UNCHANGED <<gen_ID, tables, callers, pump, worker, now, frame, other_thread, calls, last_update,
                   unchanged, removed, before>>

NextChain ==
    \/ /\ listener_alive /\ loop_pc = "none" /\ gen_ID < MaxId /\ event_map = <<>>
       /\ BeginAddEventListener("t1", "MouseEvent")
    \/ /\ listener_alive /\ loop_pc = "none" /\ gen_ID < MaxId /\ shortcut_map = <<>>
       /\ BeginAddGlobalShortcut("t1", CtrlOnly)
    \/ AddShortcutStep("t1")
    \/ InsertEvent("t1")
    \/ listener_alive /\ Startup("t1")
    \/ PumpBoot
    \/ PumpRecheck(TRUE, TRUE)
    \/ PumpQuit
    \/ \E st \in KeyStates, time \in {last_time, last_time + 1} :
            hook_seq < MaxWorkerEvents /\ KeyboardHookProc("ControlLeft", st, time)
    \/ hook_seq < MaxWorkerEvents /\ MouseHookProc
    \/ hook_seq < MaxWorkerEvents /\ HookNoAction
    \/ WorkerRecvKeyboard
    \/ WorkerRecvMouse
    \/ WorkerRecvStop
    \/ \E e \in tasks : OnEvent(e)
    \/ \E e \in tasks : OnEventDropped(e)
    \/ DropListener("t1")
    \/ ShutdownPostStop("t1")
    \/ ShutdownStop("t1")
    \/ DropFields("t1")

SpecChain == Init /\ [][NextChain]_vars

\* C32: every invocation of the keyboard or mouse hook procedure calls
\* CallNextHookEx exactly once, whatever path it takes (non-action code,
\* repeated timestamp, normal delivery), and holds no lock at that call.
C32_ChainNextExactlyOnce ==
    [][hook_seq' # hook_seq => hook_call'.calls = 1 /\ hook_call'.held = {}]_vars

(***************************************************************************)
(* SpecDedup: a live Listener with the shortcut "Ctrl" is started and the  *)
(* keyboard hook is invoked with new and with repeated timestamps.         *)
(***************************************************************************)
NextDedup ==
    \/ /\ loop_pc = "none" /\ gen_ID < MaxId /\ shortcut_map = <<>>
       /\ BeginAddGlobalShortcut("t1", CtrlOnly)
    \/ AddShortcutStep("t1")
    \/ Startup("t1")
    \/ PumpBoot
    \/ \E k \in SpecKeys, st \in KeyStates, time \in {last_time, last_time + 1} :
            /\ hook_seq < MaxHookEvents
            /\ time >= 1
            /\ Len(chan) < MaxWorkerEvents
            /\ KeyboardHookProc(k, st, time)
    \/ WorkerRecvKeyboard
    \/ \E e \in tasks : OnEvent(e)

SpecDedup == Init /\ [][NextDedup]_vars

NextInstall ==
    \/ gen_ID < MaxId /\ BeginAddGlobalShortcut("t1", KeyA)
    \/ gen_ID < MaxId /\ BeginAddEventListener("t1", "MouseEvent")
    \/ DOMAIN event_map \cup DOMAIN shortcut_map # {} /\ BeginDelAllEvents("t1")
    \/ AddShortcutStep("t1")
    \/ InsertEvent("t1")
    \/ DelStep("t1")
    \/ Startup("t1")
    \/ \E kb_ok, mouse_ok \in BOOLEAN : PumpStart(kb_ok, mouse_ok)
    \/ PumpRun
    \/ \E kb_ok, mouse_ok \in BOOLEAN : PumpRecheck(kb_ok, mouse_ok)

SpecInstall == Init /\ [][NextInstall]_vars

\* event_loop_fake.rs recheck_hook: set_keyboard_hook / unhook_keyboard and
\* set_mouse_hook / unhook_mouse add the id to the registry list, or take it
\* out, and install nothing
recheck_hook_fake ==
    /\ IF ~listener_alive
       THEN UNCHANGED <<keyboard_event_ids, mouse_event_ids>>
       ELSE /\ keyboard_event_ids' =
                 IF set_keyboard_flag(event_map, shortcut_map)
                 THEN IF LoopId \in Range(keyboard_event_ids) THEN keyboard_event_ids
                      ELSE Append(keyboard_event_ids, LoopId)
                 ELSE retain_ne(keyboard_event_ids, LoopId)
            /\ mouse_event_ids' =
                 IF set_mouse_flag(event_map, shortcut_map)
                 THEN IF LoopId \in Range(mouse_event_ids) THEN mouse_event_ids
                      ELSE Append(mouse_event_ids, LoopId)
                 ELSE retain_ne(mouse_event_ids, LoopId)
    /\ UNCHANGED <<kb_hook, mouse_hook>>

\* run_with_thread's thread: event_loop.recheck_hook()
PumpStartFake ==
    /\ loop_pc = "spawned"
    /\ recheck_hook_fake
    /\ loop_pc' = "started"
    /\ UNCHANGED <<gen_ID, tables, callers, loop_thread_id, loop_msgs, last_time,
                   worker, now, ext, history>>

\* run: the thread id is stored; init_fake_win creates the raw-input window
\* (win_ok) or fails, and then run returns and the thread ends
PumpRunFake(win_ok) ==
    /\ loop_pc = "started"
    /\ loop_thread_id' = LoopTid
    /\ loop_pc' = IF win_ok THEN "loop" ELSE "exited"
    /\ UNCHANGED <<gen_ID, tables, callers, loop_msgs, kb_hook, mouse_hook,
                   keyboard_event_ids, mouse_event_ids, last_time, worker, now, ext, history>>

\* run: a recheck message is taken off the queue
PumpRecheckFake ==
    /\ loop_pc = "loop"
    /\ loop_msgs # <<>>
    /\ Head(loop_msgs) = "RECHECK"
    /\ loop_msgs' = Tail(loop_msgs)
    /\ recheck_hook_fake
    /\ UNCHANGED <<gen_ID, tables, callers, loop_pc, loop_thread_id, last_time,
                   worker, now, ext, history>>

NextFake ==
    \/ gen_ID < MaxId /\ BeginAddGlobalShortcut("t1", KeyA)
    \/ gen_ID < MaxId /\ BeginAddEventListener("t1", "MouseEvent")
    \/ DOMAIN event_map \cup DOMAIN shortcut_map # {} /\ BeginDelAllEvents("t1")
    \/ AddShortcutStep("t1")
    \/ InsertEvent("t1")
    \/ DelStep("t1")
    \/ Startup("t1")
    \/ PumpStartFake
    \/ \E win_ok \in BOOLEAN : PumpRunFake(win_ok)
    \/ PumpRecheckFake

SpecFake == Init /\ [][NextFake]_vars

Count(seq, x) == Cardinality({i \in DOMAIN seq : seq[i] = x})

\* C34: when installing a hook fails, the pump thread keeps running, no hook
\* is stored and the loop's id is not added to the registry list of that
\* device; a later recheck with the need still present attempts the
\* installation again and, when it succeeds, adds the id exactly once.
C34_InstallFailureIsRetried ==
    [][/\ \A kb_ok, mouse_ok \in BOOLEAN :
            PumpStart(kb_ok, mouse_ok) \/ PumpRecheck(kb_ok, mouse_ok) =>
               /\ loop_pc' \in {"started", "loop"}
               /\ ~kb_hook /\ ~kb_ok =>
                     ~kb_hook' /\ Count(keyboard_event_ids', LoopId) = 0
               /\ ~mouse_hook /\ ~mouse_ok =>
                     ~mouse_hook' /\ Count(mouse_event_ids', LoopId) = 0
               /\ ~kb_hook /\ kb_ok /\ DOMAIN shortcut_map # {} =>
                     kb_hook' /\ Count(keyboard_event_ids', LoopId) = 1
               /\ /\ ~mouse_hook /\ mouse_ok
                  /\ \E i \in DOMAIN event_map : event_map[i] \in {"MouseEvent", "All"}
                  => mouse_hook' /\ Count(mouse_event_ids', LoopId) = 1
       /\ PumpRunFake(FALSE) =>
               /\ loop_pc' \in {"started", "loop"}
               /\ Count(keyboard_event_ids', LoopId) = 0
               /\ Count(mouse_event_ids', LoopId) = 0]_vars


(***************************************************************************)
(* SpecBuild: one caller builds a Shortcut with new (a Vec of one or two   *)
(* keys, repeated keys included), from_str (texts with repeated, aliased   *)
(* and invalid tokens), set_key and remove_key.                            *)
(***************************************************************************)
BuildKeys == {"Control", "ControlLeft", "Alt", "UsA", "UsC"}
BuildVecs == {<<k>> : k \in BuildKeys} \cup {<<k1, k2>> : k1 \in BuildKeys, k2 \in BuildKeys}
BuildTexts ==
    { <<"C", "t", "r", "l", "+", "A", "l", "t", "+", "A">>,
      <<"C", "+", "C", "t", "r", "l", "+", "A", "+", "C">>,
      <<"C", "t", "r", "l", "+", "C", "o", "n", "t", "r", "o", "l", "+", "A">>,
      <<"A", "+", "A">>,
      <<"A", "+", "X", "x">> }

\* let s = Shortcut::new(keys).unwrap();
BuildNewKeys(t, keys) ==
    /\ pc[t] = "idle"
    /\ loc' = [loc EXCEPT ![t].shortcut = ShortcutNew(keys), ![t].text = NoLoc.text]
    /\ UNCHANGED <<gen_ID, tables, pc, ret, pump, worker, now, ext, history>>

\* if let Ok(parsed) = Shortcut::from_str(text) { s = parsed; }
BuildFromStr(t, text) ==
    /\ pc[t] = "idle"
    /\ loc' = [loc EXCEPT ![t].text = text,
                          ![t].shortcut = IF from_str(text).ok
                                          THEN from_str(text).shortcut
                                          ELSE @]
    /\ UNCHANGED <<gen_ID, tables, pc, ret, pump, worker, now, ext, history>>

NextBuild ==
    \/ \E keys \in BuildVecs : BuildNewKeys("t1", keys)
    \/ \E text \in BuildTexts : BuildFromStr("t1", text)
    \/ \E k \in BuildKeys : BuildSetKey("t1", k)
    \/ \E k \in BuildKeys : BuildRemoveKey("t1", k)

SpecBuild == Init /\ [][NextBuild]_vars

\* the keys of list occur in keys, in the order of their first occurrence there
FirstIn(keys, k) ==
    CHOOSE i \in 1..Len(keys) : keys[i] = k /\ \A j \in 1..(i - 1) : keys[j] # k
InOrderOf(list, keys) ==
    \A i, j \in 1..Len(list) : i < j => FirstIn(keys, list[i]) < FirstIn(keys, list[j])

\* C35: in every Shortcut built by new / from_str / set_key / remove_key the
\* modifier list and the normal-key list hold no key twice, modifiers holds
\* only modifier keys and normal_keys only non-modifier keys; new keeps the
\* normal keys in the order of their first occurrence in its argument, set_key
\* of an absent key appends it to the end of its list, set_key of a key that is
\* present leaves the Shortcut unchanged, and remove_key keeps the order of
\* the keys that remain.
C35_ShortcutInvariants ==
    /\ [](/\ \A i, j \in 1..Len(loc["t1"].shortcut.modifiers) :
                i # j => loc["t1"].shortcut.modifiers[i] # loc["t1"].shortcut.modifiers[j]
          /\ \A i, j \in 1..Len(loc["t1"].shortcut.normal_keys) :
                i # j => loc["t1"].shortcut.normal_keys[i] # loc["t1"].shortcut.normal_keys[j]
          /\ \A i \in 1..Len(loc["t1"].shortcut.modifiers) :
                is_modifier(loc["t1"].shortcut.modifiers[i])
          /\ \A i \in 1..Len(loc["t1"].shortcut.normal_keys) :
                ~is_modifier(loc["t1"].shortcut.normal_keys[i]))
    /\ [][LET s == loc["t1"].shortcut
              n == loc'["t1"].shortcut
          IN  /\ \A keys \in BuildVecs : BuildNewKeys("t1", keys) =>
                    /\ Range(n.modifiers) = {k \in Range(keys) : is_modifier(k)}
                    /\ Range(n.normal_keys) = {k \in Range(keys) : ~is_modifier(k)}
                    /\ InOrderOf(n.modifiers, keys)
                    /\ InOrderOf(n.normal_keys, keys)
              /\ \A k \in BuildKeys : BuildSetKey("t1", k) =>
                    /\ (contains(s.modifiers, k) \/ contains(s.normal_keys, k)) => n = s
                    /\ (~contains(s.modifiers, k) /\ is_modifier(k)) =>
                          n = [s EXCEPT !.modifiers = Append(s.modifiers, k)]
                    /\ (~contains(s.normal_keys, k) /\ ~is_modifier(k)) =>
                          n = [s EXCEPT !.normal_keys = Append(s.normal_keys, k)]
              /\ \A k \in BuildKeys : BuildRemoveKey("t1", k) =>
                    /\ Range(n.modifiers) = Range(s.modifiers) \ {k}
                    /\ Range(n.normal_keys) = Range(s.normal_keys) \ {k}
                    /\ InOrderOf(n.modifiers, s.modifiers)
                    /\ InOrderOf(n.normal_keys, s.normal_keys)
         ]_vars

\* from_str("C+Ctrl+A+C") followed by set_key(UsC): the repeated C is held once,
\* before A
C35_Witness ==
    /\ loc["t1"].text = <<"C", "+", "C", "t", "r", "l", "+", "A", "+", "C">>
    /\ loc["t1"].shortcut = [modifiers |-> <<"Control">>, normal_keys |-> <<"UsC", "UsA">>]


(***************************************************************************)
(* A further startup().  run_with_thread spawns a pump thread on every     *)
(* call, and Worker::run makes a new channel and a new worker loop.  The   *)
(* variables of the pump describe the thread whose id loop_thread_id holds *)
(* or held last, other_thread the second one; the hook maps and the last   *)
(* key time are thread-local, the registry lists are shared.  When the     *)
(* second thread stores its id in loop_thread_id the two change places.    *)
(***************************************************************************)
LivePump == {"spawned", "started", "loop"}

\* startup(Some(true)) of a Listener that was started before
StartupAgain(t) ==
    /\ pc[t] = "idle"
    /\ loop_pc # "none"
    /\ other_thread.loop_pc \in {"none", "exited"}
    /\ chan = <<>>
    /\ other_thread' = [NoThread EXCEPT !.loop_pc = "spawned"]
    /\ msg_sender' = TRUE
    /\ worker_pc' = "running"
    /\ ret' = [ret EXCEPT ![t] = [NoRet EXCEPT !.op = "startup", !.handle = TRUE]]
    /\ UNCHANGED <<gen_ID, tables, pc, loc, pump, chan, kbstate, tasks, now, frame,
                   hook_call, history>>

\* recheck_hook on the second thread: its own LOCAL_KEYBOARD_HHOOK and
\* LOCAL_MOUSE_HHOOK, the registry lists of the process
recheck_hook_other(kb_ok, mouse_ok) ==
    IF ~listener_alive
    THEN UNCHANGED <<keyboard_event_ids, mouse_event_ids>>
         /\ other_thread' = other_thread
    ELSE LET kb_set == set_keyboard_flag(event_map, shortcut_map)
                         /\ ~other_thread.kb_hook /\ kb_ok
             kb_unhook == ~set_keyboard_flag(event_map, shortcut_map) /\ other_thread.kb_hook
             mouse_set == set_mouse_flag(event_map, shortcut_map)
                            /\ ~other_thread.mouse_hook /\ mouse_ok
             mouse_unhook == ~set_mouse_flag(event_map, shortcut_map) /\ other_thread.mouse_hook
         IN  /\ keyboard_event_ids' =
                    IF kb_set THEN Append(keyboard_event_ids, LoopId)
                    ELSE IF kb_unhook THEN retain_ne(keyboard_event_ids, LoopId)
                    ELSE keyboard_event_ids
             /\ mouse_event_ids' =
                    IF mouse_set THEN Append(mouse_event_ids, LoopId)
                    ELSE IF mouse_unhook THEN retain_ne(mouse_event_ids, LoopId)
                    ELSE mouse_event_ids
             /\ other_thread' =
                    [other_thread EXCEPT
                        !.kb_hook = IF kb_set THEN TRUE ELSE IF kb_unhook THEN FALSE ELSE @,
                        !.mouse_hook = IF mouse_set THEN TRUE
                                       ELSE IF mouse_unhook THEN FALSE ELSE @,
                        !.loop_pc = IF @ = "spawned" THEN "started" ELSE @,
                        !.loop_msgs = IF @ = <<>> THEN @ ELSE Tail(@)]

\* run_with_thread's closure on the second thread: event_loop.recheck_hook()
OtherPumpStart(kb_ok, mouse_ok) ==
    /\ other_thread.loop_pc = "spawned"
    /\ recheck_hook_other(kb_ok, mouse_ok)
    /\ UNCHANGED <<gen_ID, tables, callers, loop_pc, loop_thread_id, loop_msgs, kb_hook,
                   mouse_hook, last_time, worker, now, frame, hook_call, history>>

\* run on the second thread: its id replaces the one in loop_thread_id, so it
\* is the thread that messages are posted to from now on
OtherPumpRun ==
    /\ other_thread.loop_pc = "started"
    /\ loop_thread_id' = LoopTid
    /\ loop_pc' = "loop"
    /\ loop_msgs' = other_thread.loop_msgs
    /\ kb_hook' = other_thread.kb_hook
    /\ mouse_hook' = other_thread.mouse_hook
    /\ last_time' = other_thread.last_time
    /\ other_thread' = [loop_pc |-> loop_pc, loop_msgs |-> loop_msgs, kb_hook |-> kb_hook,
                        mouse_hook |-> mouse_hook, last_time |-> last_time]
    /\ UNCHANGED <<gen_ID, tables, callers, keyboard_event_ids, mouse_event_ids, worker,
                   now, frame, hook_call, history>>

\* run on the thread that is no longer the one of loop_thread_id: a
\* WM_USER_RECHECK_HOOK that was posted to it before
OtherPumpRecheck(kb_ok, mouse_ok) ==
    /\ other_thread.loop_pc = "loop"
    /\ other_thread.loop_msgs # <<>>
    /\ Head(other_thread.loop_msgs) = "RECHECK"
    /\ recheck_hook_other(kb_ok, mouse_ok)
    /\ UNCHANGED <<gen_ID, tables, callers, loop_pc, loop_thread_id, loop_msgs, kb_hook,
                   mouse_hook, last_time, worker, now, frame, hook_call, history>>

\* run on that thread: a WM_QUIT that was posted to it before
OtherPumpQuit ==
    /\ other_thread.loop_pc = "loop"
    /\ other_thread.loop_msgs # <<>>
    /\ Head(other_thread.loop_msgs) = "QUIT"
    /\ other_thread' = [other_thread EXCEPT !.loop_pc = "exited", !.loop_msgs = <<>>]
    /\ UNCHANGED <<gen_ID, tables, callers, pump, worker, now, frame, hook_call, history>>

(***************************************************************************)
(* SpecRestart: one caller thread subscribes and calls startup() and       *)
(* shutdown() any number of times, in any order.                           *)
(***************************************************************************)
NextRestart ==
    \/ gen_ID < MaxId /\ BeginAddEventListener("t1", "MouseEvent")
    \/ GenIdLoad("t1")
    \/ GenIdStore("t1")
    \/ InsertEvent("t1")
    \/ PostRecheck("t1")
    \/ Startup("t1")
    \/ StartupAgain("t1")
    \/ PumpBoot
    \/ PumpRecheck(TRUE, TRUE)
    \/ PumpQuit
    \/ OtherPumpStart(TRUE, TRUE)
    \/ OtherPumpRun
    \/ OtherPumpRecheck(TRUE, TRUE)
    \/ OtherPumpQuit
    \/ WorkerRecvStop
    \/ Len(chan) < MaxShutdowns /\ ShutdownDelAll("t1")
    \/ ShutdownPostStop("t1")
    \/ ShutdownStop("t1")

SpecRestart == Init /\ [][NextRestart]_vars

\* C36: a HookLoop has at most one live pump thread at any time, whatever
\* startup() and shutdown() calls were made on its Listener.
C36_AtMostOnePumpThread ==
    ~(loop_pc \in LivePump /\ other_thread.loop_pc \in LivePump)


(***************************************************************************)
(* Two Listeners in one process.  The second Listener is seen through the  *)
(* registry: its EventLoop has the id OtherId, and its pump thread has a   *)
(* mouse hook installed exactly while OtherId is in mouse_event_ids.       *)
(***************************************************************************)
OtherId == 9            \* EventLoop::new of the second Listener: a later gen_id()

\* set_mouse_hook on the second Listener's pump thread
OtherListenerSetMouseHook ==
    /\ ~contains(mouse_event_ids, OtherId)
    /\ mouse_event_ids' = Append(mouse_event_ids, OtherId)
    /\ UNCHANGED <<gen_ID, tables, callers, loop_pc, loop_thread_id, loop_msgs, kb_hook,
                   mouse_hook, keyboard_event_ids, last_time, worker, now, ext, history>>

\* unhook_mouse on the second Listener's pump thread
OtherListenerUnhookMouse ==
    /\ contains(mouse_event_ids, OtherId)
    /\ mouse_event_ids' = retain_ne(mouse_event_ids, OtherId)
    /\ UNCHANGED <<gen_ID, tables, callers, loop_pc, loop_thread_id, loop_msgs, kb_hook,
                   mouse_hook, keyboard_event_ids, last_time, worker, now, ext, history>>

\* get_mouse_event_loop and the posts of one mouse_hook_proc invocation, as
\* far as they reach this Listener's Worker: one post_msg_to_worker for every
\* entry of the list that is this Listener's id
posts_of_invocation(ids) == SelectSeq(ids, LAMBDA id : id = LoopId)

\* one physical mouse click: the system calls mouse_hook_proc once for every
\* WH_MOUSE_LL hook installed in the process, one after the other
MouseInput ==
    LET installed == (IF loop_pc = "loop" /\ mouse_hook THEN 1 ELSE 0)
                       + (IF contains(mouse_event_ids, OtherId) THEN 1 ELSE 0)
        msg == [type |-> "MouseEvent", key_id |-> "None", state |-> "None",
                seq |-> hook_seq + 1]
        once == post_msgs(<<>>, posts_of_invocation(mouse_event_ids), msg)
    IN  /\ installed > 0
        /\ listener_alive
        /\ hook_seq' = hook_seq + 1
        /\ chan' = IF installed = 2 THEN chan \o once \o once ELSE chan \o once
        /\ hook_call' = chain_next("posted")
        /\ UNCHANGED <<gen_ID, tables, callers, pump, msg_sender, worker_pc, kbstate, tasks,
                       now, frame, other_thread, calls, last_update, unchanged, removed,
                       before>>

(***************************************************************************)
(* SpecCoexist: a Listener with a mouse subscription is started while a    *)
(* second Listener installs and removes its mouse hook; mouse clicks are   *)
(* dispatched.                                                             *)
(***************************************************************************)
NextCoexist ==
    \/ loop_pc = "none" /\ gen_ID < MaxId /\ BeginAddEventListener("t1", "MouseEvent")
    \/ GenIdLoad("t1")
    \/ GenIdStore("t1")
    \/ InsertEvent("t1")
    \/ PostRecheck("t1")
    \/ Startup("t1")
    \/ PumpBoot
    \/ OtherListenerSetMouseHook
    \/ OtherListenerUnhookMouse
    \/ hook_seq < MaxHookEvents /\ chan = <<>> /\ tasks = {} /\ MouseInput
    \/ WorkerRecvMouse
    \/ \E e \in tasks : OnEvent(e)

SpecCoexist == Init /\ [][NextCoexist]_vars

\* C37: with two Listeners that have mouse hooks installed, one physical mouse
\* click invokes each subscription callback of a Listener exactly once: no two
\* runs of on_event for the same click invoke the same callback, and the
\* Worker is sent the click once.
C37_OncePerPhysicalEvent ==
    /\ \A i, j \in DOMAIN calls :
          (i # j /\ calls[i].seq = calls[j].seq) =>
              calls[i].event_cbs \cap calls[j].event_cbs = {}
    /\ \A i, j \in DOMAIN chan : i # j => chan[i].seq # chan[j].seq


\* C38: between pump-thread steps the EventLoop's id is in the registry's
\* keyboard (mouse) list exactly when a keyboard (mouse) hook installed for it
\* by a live pump thread exists, and the id occurs at most once in each list,
\* so that one hook invocation posts an event at most once to the Worker.
C38_RegistryMatchesHooks ==
    /\ contains(keyboard_event_ids, LoopId)
         <=> \/ loop_pc \in LivePump /\ kb_hook
             \/ other_thread.loop_pc \in LivePump /\ other_thread.kb_hook
    /\ contains(mouse_event_ids, LoopId)
         <=> \/ loop_pc \in LivePump /\ mouse_hook
             \/ other_thread.loop_pc \in LivePump /\ other_thread.mouse_hook
    /\ Len(posts_of_invocation(keyboard_event_ids)) <= 1
    /\ Len(posts_of_invocation(mouse_event_ids)) <= 1


(***************************************************************************)
(* The EventLoop's entry in the registry map.  new_event_loop puts a clone *)
(* of the Arc<EventLoop> into event_loops; del_event_loop, the only code   *)
(* that removes it, is called by Drop for EventLoop, which runs when the   *)
(* last Arc<EventLoop> goes.                                               *)
(***************************************************************************)
\* the Arc<EventLoop> clones alive: the one in event_loops, the Listener's
\* field listener_event_loop until the Listener's fields are dropped, and the
\* one moved into the closure of a pump thread that has not ended
event_loop_arcs ==
    {"event_loops"}
      \cup (IF listener_alive \/ pc["t1"] \in {"shutdown_post_stop", "shutdown_stop", "drop_fields"}
            THEN {"listener_event_loop"} ELSE {})
      \cup (IF loop_pc \in LivePump THEN {"run_with_thread"} ELSE {})

\* EVENT_LOOP_MANAGER.event_loops: the ids of its entries
event_loops == IF event_loop_arcs = {} THEN {} ELSE {LoopId}

\* the Listener was dropped and no pump thread of it is running
ListenerGone ==
    /\ ~listener_alive
    /\ pc["t1"] = "idle"
    /\ loop_pc \in {"none", "exited"}

\* C39: after the Listener has been dropped and its pump thread has exited,
\* the registry eventually holds no entry for the EventLoop's id: not in the
\* event_loops map, not in the keyboard list, not in the mouse list.
C39_RegistryReleasesHookLoop ==
    ListenerGone ~>
        /\ LoopId \notin event_loops
        /\ ~contains(keyboard_event_ids, LoopId)
        /\ ~contains(mouse_event_ids, LoopId)


(***************************************************************************)
(* SpecRemove: one caller thread subscribes to every event and binds       *)
(* "Ctrl" before startup(), and removes entries by id (known and unknown   *)
(* ids) or all at once, at any moment, while mouse and Ctrl events are     *)
(* dispatched statement by statement on the worker loop's thread.          *)
(***************************************************************************)
NextRemove ==
    \/ loop_pc = "none" /\ gen_ID < MaxId /\ BeginAddEventListener("t1", "All")
    \/ /\ loop_pc = "none" /\ gen_ID < MaxId /\ shortcut_map = <<>>
       /\ BeginAddGlobalShortcut("t1", CtrlOnly)
    \/ \E id \in 2..(MaxId + 1) : BeginDelEventById("t1", id)
    \/ DOMAIN event_map \cup DOMAIN shortcut_map # {} /\ BeginDelAllEvents("t1")
    \/ AddShortcutStep("t1")
    \/ InsertEvent("t1")
    \/ DelStep("t1")
    \/ Startup("t1")
    \/ PumpBoot
    \/ PumpRecheck(TRUE, TRUE)
    \/ /\ hook_seq < MaxWorkerEvents /\ chan = <<>> /\ tasks = {}
       /\ KeyboardHookProc("ControlLeft", "Pressed", last_time + 1)
    \/ hook_seq < MaxWorkerEvents /\ chan = <<>> /\ tasks = {} /\ MouseHookProc
    \/ frame.pc = "none" /\ WorkerRecvKeyboard
    \/ frame.pc = "none" /\ WorkerRecvMouse
    \/ OnEventStep

SpecRemove == Init /\ [][NextRemove]_vars

\* the ids of the entries that a del_event_by_id or del_all_events call which
\* has returned took out of the tables (ids are handed out once, by one thread)
Gone ==
    {id \in 2..gen_ID :
        /\ id \notin DOMAIN event_map \cup DOMAIN shortcut_map
        /\ ~(pc["t1"] # "idle" /\ (loc["t1"].id = id \/ loc["t1"].op = "del_all_events"))}

\* C40: a callback removed by del_event_by_id(id) or del_all_events is not
\* invoked for an event whose dispatch begins after the removing call has
\* returned: when the call returns the entries are out of both tables, the
\* snapshots on_event takes hold no removed entry, and on_event calls only
\* what its snapshots hold.  del_event_by_id(id) leaves every other entry of
\* both tables as it was, and changes nothing when the id is unknown.
C40_RemovedNeverInvoked ==
    [][/\ (pc["t1"] = "post_recheck" /\ pc'["t1"] = "idle") =>
             /\ loc["t1"].op = "del_event_by_id" =>
                   loc["t1"].id \notin DOMAIN event_map' \cup DOMAIN shortcut_map'
             /\ loc["t1"].op = "del_all_events" =>
                   event_map' = <<>> /\ shortcut_map' = <<>>
       /\ (frame.pc = "none" /\ frame'.pc # "none") => frame'.event_cbs \cap Gone = {}
       /\ frame'.pc = "in_event_cb" =>
             (frame.cbs \ frame'.cbs) \subseteq frame.event_cbs
       /\ (frame.pc = "event_cbs" /\ frame'.pc = "in_shortcut_cb") =>
             /\ frame'.hit \in DOMAIN shortcut_map
             /\ frame'.hit \notin Gone
       /\ (pc["t1"] = "del_event" /\ pc'["t1"] # "del_event"
           /\ loc["t1"].op = "del_event_by_id") =>
             /\ DOMAIN event_map' = DOMAIN event_map \ {loc["t1"].id}
             /\ \A i \in DOMAIN event_map' : event_map'[i] = event_map[i]
             /\ shortcut_map' = shortcut_map
       /\ (pc["t1"] = "del_shortcut" /\ pc'["t1"] # "del_shortcut"
           /\ loc["t1"].op = "del_event_by_id") =>
             /\ DOMAIN shortcut_map' = DOMAIN shortcut_map \ {loc["t1"].id}
             /\ \A i \in DOMAIN shortcut_map' : shortcut_map'[i] = shortcut_map[i]
             /\ event_map' = event_map
      ]_vars

\* del_event_by_id(2) has returned; a later click is being dispatched to the
\* remaining subscription 3 from a snapshot without 2
C40_Witness ==
    /\ 2 \in Gone
    /\ ret["t1"].op = "del_event_by_id"
    /\ frame.pc = "in_event_cb"
    /\ frame.event.type = "MouseEvent"
    /\ frame.event_cbs = {3}
    /\ 3 \in DOMAIN event_map

====
